---- MODULE Spec2Model ----
(***************************************************************************)
(* Contact-management REST backend (Express + node-pg + PostgreSQL).       *)
(*                                                                         *)
(* The store is the three tables the handlers name: users, contacts and    *)
(* contact_phone_numbers.  A request is a record in a slot of req; every   *)
(* `await` of a handler is one step, so that the statements of requests in *)
(* flight interleave as they do on the event loop and in the store.        *)
(*                                                                         *)
(* Three facts of the deployment are not in the sources and are drawn in   *)
(* Init: the stored name of the owner column of contacts (the handlers of  *)
(* routes/contacts.js name it userId, every other file user_id), whether   *)
(* the schema declares foreign keys, and with which delete rule, and       *)
(* whether it declares users.name unique.                                  *)
(***************************************************************************)
EXTENDS Integers, Sequences, FiniteSets, TLC

VARIABLES
  ownerColumn,  \* schema: stored name of contacts' owner column
  foreignKeys,  \* schema: foreign keys of the child tables (none / restrict / cascade)
  uniqueNames,  \* schema: whether users.name carries a UNIQUE constraint
  users,        \* table users: id -> row
  contacts,     \* table contacts: id -> row
  phones,       \* table contact_phone_numbers: id -> row
  contactSeq,   \* serial sequence of contacts.id (last value handed out)
  phoneSeq,     \* serial sequence of contact_phone_numbers.id
  req,          \* request slot -> request in flight (or idle / done)
  started,      \* requests started so far
  faults,       \* store errors raised so far
  now,          \* the clock jwt.verify and the store's NOW() read
  codes,        \* table password_reset_codes: set of rows
  tokens        \* tokens signed by generateToken so far

vars == <<ownerColumn, foreignKeys, uniqueNames, users, contacts, phones, contactSeq, phoneSeq,
          req, started, faults, now, codes, tokens>>

\* What the routes of routes/auth.js add to the state.
authVars == <<now, codes, tokens>>

-----------------------------------------------------------------------------
(* Bounds of the model. *)

MaxReq == 2
MaxFaults == 1
MaxUser == 2
MaxContactId == 2
MaxPhoneId == 4

Reqs == 1..MaxReq
Users == 1..MaxUser
ContactIds == 1..MaxContactId
PhoneIds == 1..MaxPhoneId
\* Phone-number ids a request may name: one stored from the start, one not.
PhoneTargets == {1, MaxPhoneId - 1}

\* Phone-number lists a request body may carry.
PhoneLists == {<<>>, <<"y", "x">>}
\* Updatable fields of a user row, in the order the handler tests them.
UserFields == <<"name", "password", "age", "mac", "phone_number", "image">>
UserBodies == {{}, {"name"}, {"password", "age"}}

-----------------------------------------------------------------------------
(* PostgreSQL identifiers and node-pg rows. *)

\* An unquoted SQL identifier is folded to lower case by the server.
Fold(ident) == IF ident = "userId" THEN "userid" ELSE ident

\* Owner column as the statements of a file name it, and the key under
\* which the handler reads it from the returned row.
OwnerIdent(file) == IF file = "contacts.js" THEN "userId" ELSE "user_id"
OwnerKey(file) == IF file = "contacts.js" THEN "userId" ELSE "user_id"

\* A statement naming a column the table does not have raises.
ColumnExists(ident) == Fold(ident) = ownerColumn

\* row[key] of a row whose column was selected as ident: node-pg keys the
\* row by the name the server reports, 0 stands for undefined.
RowGet(ident, key, value) == IF key = Fold(ident) THEN value ELSE 0

\* contact_phone_numbers.contact_id -> contacts(id) and contacts' owner column
\* -> users(id): declared or not, and deleting the children with the parent.
FkDeclared == foreignKeys # "none"
FkCascade == foreignKeys = "cascade"

-----------------------------------------------------------------------------
(* Transactions: the writes of an open transaction are private until      *)
(* COMMIT (READ COMMITTED); rows written are locked against other writers. *)

NoRows == [i \in {} |-> 0]

EmptyTx ==
  [on |-> FALSE,
   wC |-> NoRows, newC |-> {}, delC |-> {},
   wP |-> NoRows, newP |-> {}, delP |-> {},
   delU |-> {}]

Overlay(base, w, new, del) ==
  [i \in ((DOMAIN base \cup new) \ del) |-> IF i \in DOMAIN w THEN w[i] ELSE base[i]]

\* What the statements of transaction t see.
ViewC(t) == Overlay(contacts, t.wC, t.newC, t.delC)
ViewP(t) == Overlay(phones, t.wP, t.newP, t.delP)
ViewU(t) == Overlay(users, NoRows, {}, t.delU)

LockedC(r) == DOMAIN req[r].tx.wC \cup req[r].tx.delC
LockedP(r) == DOMAIN req[r].tx.wP \cup req[r].tx.delP
LockedU(r) == req[r].tx.delU
\* Rows an open transaction references through a foreign key (key-share lock).
RefC(r) == IF FkDeclared THEN {req[r].tx.wP[p].contact_id : p \in req[r].tx.newP} ELSE {}
RefU(r) == IF FkDeclared THEN {req[r].tx.wC[c].user_id : c \in req[r].tx.newC} ELSE {}

\* A store whose writes wait for no row lock.
NoLock(r, ids) == TRUE
\* A write waits for the rows another open transaction has written.
FreeC(r, ids) == \A o \in DOMAIN req \ {r} : ids \cap LockedC(o) = {}
FreeP(r, ids) == \A o \in DOMAIN req \ {r} : ids \cap LockedP(o) = {}
FreeU(r, ids) == \A o \in DOMAIN req \ {r} : ids \cap LockedU(o) = {}
\* A delete of a parent row waits for the key-share locks on it.
UnrefC(r, ids) == \A o \in DOMAIN req \ {r} : ids \cap RefC(o) = {}
UnrefU(r, ids) == \A o \in DOMAIN req \ {r} : ids \cap RefU(o) = {}
\* Inserting a child takes a key-share lock on its parent row.
ShareC(r, ids) == (~FkDeclared) \/ \A o \in DOMAIN req \ {r} : ids \cap req[o].tx.delC = {}
ShareU(r, ids) == (~FkDeclared) \/ \A o \in DOMAIN req \ {r} : ids \cap req[o].tx.delU = {}

PhonesOfIn(P, c) == {p \in DOMAIN P : P[p].contact_id = c}
ContactsOfIn(C, u) == {c \in DOMAIN C : C[c].user_id = u}
NumbersOfIn(P, c) == [p \in PhonesOfIn(P, c) |-> P[p].phone_number]

\* A statement that saw the uncommitted writes of every open transaction.
ReadUncommitted(t) ==
  LET del == UNION {req[o].tx.delP : o \in DOMAIN req}
      new == UNION {req[o].tx.newP : o \in DOMAIN req}
      wrote(i) == {o \in DOMAIN req : i \in DOMAIN req[o].tx.wP}
  IN [i \in ((DOMAIN phones \cup new) \ del) |->
        IF wrote(i) # {} THEN req[CHOOSE o \in wrote(i) : TRUE].tx.wP[i] ELSE phones[i]]
\* The phone rows a statement sees: the committed rows and, on the connection
\* of a transaction begun with a plain BEGIN, that transaction's own writes.
Snapshot(t) == IF t.on THEN ViewP(t) ELSE phones

\* All orders in which a SELECT without an effective ORDER BY may return S.
Orderings(S) ==
  {f \in [1..Cardinality(S) -> S] : \A i, j \in 1..Cardinality(S) : i # j => f[i] # f[j]}

\* Whether the next statement raises a store error.
Raises == {FALSE} \cup (IF faults < MaxFaults THEN {TRUE} ELSE {})

-----------------------------------------------------------------------------
(* Requests. *)

Idle ==
  [op |-> "none", file |-> "", actor |-> 0, id |-> 0,
   hasName |-> FALSE, hasList |-> FALSE, list |-> <<>>, number |-> "", fields |-> {},
   page |-> 0, limit |-> 0, offset |-> 0, meta |-> NoRows, quser |-> 0,
   pc |-> "idle", status |-> 0, threw |-> FALSE, writes |-> 0, opened |-> FALSE,
   committed |-> FALSE, row |-> FALSE, cid |-> 0, k |-> 0, out |-> <<>>,
   tx |-> EmptyTx, alone |-> TRUE, preOwner |-> 0, pre |-> NoRows, post |-> NoRows]

\* utils: apiResponse sends a response; only the first one reaches the client.
apiResponse(q, s) == [q EXCEPT !.status = IF @ = 0 THEN s ELSE @]

\* utils: asyncHandler passes a rejection to errorHandler, which answers 500.
errorHandler(q) == [apiResponse(q, 500) EXCEPT !.threw = TRUE, !.pc = "done"]

\* An error thrown inside the callback of db.transaction goes to its catch.
ToRollback(q) == [q EXCEPT !.pc = "rollback"]

Active(r) == req[r].pc \notin {"idle", "done"}


\* The contact a contact request is about (0: none).
Target(q) ==
  IF q.op = "PostContact" THEN q.cid
  ELSE IF q.op \in {"PutContact", "DeleteContact", "GetContact", "GetPhones", "PostPhone"}
    THEN q.id
  ELSE 0

\* The request is over: the handler returned or its rejection was handled.
Finish(q, P) == [q EXCEPT !.pc = "done", !.post = NumbersOfIn(P, Target(q))]

-----------------------------------------------------------------------------
(* Request bodies and the synchronous prefix of each handler. *)

ContactFiles == {"contacts.js", "part_004"}

\* A body field the request leaves out is undefined in the handler and reaches
\* the statement as an SQL NULL parameter.
Null == "NULL"

Param(present, v) == IF present THEN v ELSE Null

\* An assignment 'SET col = $n' that takes the parameter as it comes.
Overwrite(param, stored) == param
\* SET col = COALESCE($n, col).
COALESCE(param, stored) == IF param = Null THEN stored ELSE param

\* Bodies of PUT /contacts/:id: name and phone-number list, each optional.
ContactBodies ==
  {[hasName |-> FALSE, hasList |-> FALSE, list |-> <<>>],
   [hasName |-> TRUE, hasList |-> FALSE, list |-> <<>>]}
  \cup {[hasName |-> FALSE, hasList |-> TRUE, list |-> l] : l \in PhoneLists}

In(op, file, actor, id, b, number, fields) ==
  [Idle EXCEPT !.op = op, !.file = file, !.actor = actor, !.id = id,
               !.hasName = b.hasName, !.hasList = b.hasList, !.list = b.list,
               !.number = number, !.fields = fields]

NoBody == [hasName |-> FALSE, hasList |-> FALSE, list |-> <<>>]

Inputs ==
  {In("PostContact", f, a, 0, [hasName |-> TRUE, hasList |-> TRUE, list |-> l], "", {}) :
      f \in ContactFiles, a \in Users, l \in PhoneLists}
  \cup {In("PutContact", f, a, c, b, "", {}) :
      f \in ContactFiles, a \in Users, c \in ContactIds, b \in ContactBodies}
  \cup {In("DeleteContact", f, a, c, NoBody, "", {}) :
      f \in ContactFiles, a \in Users, c \in ContactIds}
  \cup {In("GetContact", "part_004", a, c, NoBody, "", {}) : a \in Users, c \in ContactIds}
  \cup {In("GetPhones", "phoneNumbers.js", a, c, NoBody, "", {}) :
      a \in Users, c \in ContactIds}
  \cup {In("PostPhone", "phoneNumbers.js", a, c, NoBody, "z", {}) :
      a \in Users, c \in ContactIds}
  \cup {In("PutPhone", "phoneNumbers.js", a, p, NoBody, n, {}) :
      a \in Users, p \in PhoneTargets, n \in {"z", ""}}
  \cup {In("DeletePhone", "phoneNumbers.js", a, p, NoBody, "", {}) :
      a \in Users, p \in PhoneTargets}
  \cup {In("PutUser", "users.js", a, u, NoBody, "", fs) :
      a \in Users, u \in Users, fs \in UserBodies}
  \cup {In("DeleteUser", "users.js", a, u, NoBody, "", {}) : a \in Users, u \in Users}

\* A handler that pushed 'updated_at = NOW()' before testing updates.length.
updatesStamped(q) == Append(SelectSeq(UserFields, LAMBDA f : f \in q.fields), "updated_at")
\* users.js PUT /:id: one assignment per field that passes its test.
updates(q) == SelectSeq(UserFields, LAMBDA f : f \in q.fields)

\* The third revision of the contacts router in part_004 (lines 606-915).
Rev3 == "part_004#3"

\* The owner whose contacts the list handler looks up: req.params.userId, and
\* in the third revision 'req.query.user_id || req.user.userId'.
ListOwner(q) ==
  IF q.file = Rev3 THEN (IF q.quser # 0 THEN q.quser ELSE q.actor) ELSE q.id

\* The handler up to its first await.
Enter(q) ==
  IF q.op \in {"PutUser", "DeleteUser"} /\ q.id # q.actor
    THEN Finish(apiResponse(q, 403), phones)
  ELSE IF q.op = "PutUser" /\ Len(updates(q)) = 0
    THEN Finish(apiResponse(q, 400), phones)
  ELSE IF q.op = "PutUser" THEN [q EXCEPT !.pc = "updUser"]
  ELSE IF q.op = "ListContacts" /\ ListOwner(q) # q.actor
    THEN Finish(apiResponse(q, 403), phones)
  ELSE IF q.op = "ListContacts" THEN [q EXCEPT !.pc = "listRows"]
  ELSE IF q.op = "ListUsers" THEN [q EXCEPT !.pc = "countUsers"]
  ELSE IF q.op \in {"PostContact", "DeleteUser"} THEN [q EXCEPT !.pc = "begin"]
  ELSE [q EXCEPT !.pc = "check"]

\* Owner of the resource a request names, as stored when the request arrives.
OwnerOf(q) ==
  IF q.op \in {"PutContact", "DeleteContact", "GetContact", "GetPhones", "PostPhone"}
    THEN IF q.id \in DOMAIN contacts THEN contacts[q.id].user_id ELSE 0
  ELSE IF q.op \in {"PutPhone", "DeletePhone"}
    THEN IF q.id \in DOMAIN phones /\ phones[q.id].contact_id \in DOMAIN contacts
           THEN contacts[phones[q.id].contact_id].user_id ELSE 0
  ELSE IF q.op \in {"PutUser", "DeleteUser"}
    THEN IF q.id \in DOMAIN users THEN q.id ELSE 0
  ELSE 0

\* Requests are numbered in the order of their arrival.
FreeSlot == CHOOSE r \in DOMAIN req : req[r].pc = "idle" /\ \A o \in 1..(r - 1) : req[o].pc # "idle"

\* A request arrives with a verified token of actor and a valid body.
Arrive(r, i) ==
  LET q == [i EXCEPT !.alone = \A o \in DOMAIN req : ~Active(o),
                     !.preOwner = OwnerOf(i),
                     !.pre = NumbersOfIn(phones, Target(i))]
  IN
  /\ \E o \in DOMAIN req : req[o].pc = "idle"
  /\ r = FreeSlot
  /\ req' = [o \in DOMAIN req |->
               IF o = r THEN Enter(q)
               ELSE IF Active(o) THEN [req[o] EXCEPT !.alone = FALSE]
               ELSE req[o]]
  /\ started' = started + 1
  /\ UNCHANGED authVars /\ UNCHANGED <<ownerColumn, foreignKeys, uniqueNames, users, contacts, phones, contactSeq, phoneSeq, faults>>

Start(r) == \E i \in Inputs : Arrive(r, i)

-----------------------------------------------------------------------------
(* libs/db.js: transaction(callback). *)

\* COMMIT makes the writes of the transaction the stored rows.
Commit(base, w, new, del) == Overlay(base, w, new, del)
\* A catch block that kept the writes instead of discarding them.
KeepWrites(base, w, new, del) == Overlay(base, w, new, del)
\* ROLLBACK (or the loss of the connection) discards them.
Rollback(base, w, new, del) == base

\* pool.connect() and BEGIN.
TxBegin(r) ==
  LET q == req[r] IN
  /\ q.pc = "begin"
  /\ \E bad \in Raises :
       /\ req' = [req EXCEPT ![r] =
            IF bad THEN ToRollback([q EXCEPT !.opened = TRUE])
            ELSE [q EXCEPT !.opened = TRUE, !.tx.on = TRUE,
                   !.pc = CASE q.op = "PostContact" -> "insert"
                            [] q.op = "PutContact" -> "update"
                            [] q.op = "DeleteContact" -> "delPhones"
                            [] q.op = "PostPhone" -> "insPhones"
                            [] q.op = "PutPhone" -> "updPhone"
                            [] OTHER -> "delContacts"]]
       /\ faults' = faults + (IF bad THEN 1 ELSE 0)
  /\ UNCHANGED authVars /\ UNCHANGED <<ownerColumn, foreignKeys, uniqueNames, users, contacts, phones, contactSeq, phoneSeq, started>>

\* COMMIT, then release; a failing COMMIT goes to the catch block.
TxCommit(r) ==
  LET q == req[r] t == req[r].tx IN
  /\ q.pc = "commit"
  /\ \E bad \in Raises :
       /\ faults' = faults + (IF bad THEN 1 ELSE 0)
       /\ IF bad
            THEN /\ req' = [req EXCEPT ![r] = ToRollback(q)]
                 /\ UNCHANGED <<users, contacts, phones>>
            ELSE /\ contacts' = Commit(contacts, t.wC, t.newC, t.delC)
                 /\ phones' = Commit(phones, t.wP, t.newP, t.delP)
                 /\ users' = Commit(users, NoRows, {}, t.delU)
                 /\ req' = [req EXCEPT ![r] =
                      Finish([q EXCEPT !.tx = EmptyTx, !.committed = TRUE], phones')]
  /\ UNCHANGED authVars /\ UNCHANGED <<ownerColumn, foreignKeys, uniqueNames, contactSeq, phoneSeq, started>>

\* catch: ROLLBACK, rethrow; finally: release.  The rejection reaches
\* errorHandler through asyncHandler.
TxRollback(r) ==
  LET q == req[r] t == req[r].tx IN
  /\ q.pc = "rollback"
  /\ contacts' = Rollback(contacts, t.wC, t.newC, t.delC)
  /\ phones' = Rollback(phones, t.wP, t.newP, t.delP)
  /\ users' = Rollback(users, NoRows, {}, t.delU)
  /\ req' = [req EXCEPT ![r] = Finish(errorHandler([q EXCEPT !.tx = EmptyTx]), phones')]
  /\ UNCHANGED authVars /\ UNCHANGED <<ownerColumn, foreignKeys, uniqueNames, contactSeq, phoneSeq, started, faults>>

-----------------------------------------------------------------------------
(* Ownership checks. *)

\* contacts: 'SELECT <owner> FROM contacts WHERE id = $1', then 404 / 403.
\* GET /:id selects *, whose keys are the stored column names.
ContactOwnerCheck(r) ==
  LET q == req[r]
      ident == IF q.op = "GetContact" THEN ownerColumn ELSE OwnerIdent(q.file)
  IN
  /\ q.pc = "check"
  /\ q.op \in {"PutContact", "DeleteContact", "GetContact", "GetPhones", "PostPhone"}
  /\ \E bad \in Raises :
       LET raised == bad \/ ~ColumnExists(ident)
           owner == IF q.id \in DOMAIN contacts
                      THEN RowGet(ident, OwnerKey(q.file), contacts[q.id].user_id)
                      ELSE 0
       IN
       /\ bad => ColumnExists(ident)
       /\ req' = [req EXCEPT ![r] =
            IF raised THEN Finish(errorHandler(q), phones)
            ELSE IF q.id \notin DOMAIN contacts THEN Finish(apiResponse(q, 404), phones)
            ELSE IF owner # q.actor THEN Finish(apiResponse(q, 403), phones)
            ELSE [q EXCEPT !.pc = IF q.op \in {"GetContact", "GetPhones"}
                                    THEN "selPhones" ELSE "begin"]]
       /\ faults' = faults + (IF bad THEN 1 ELSE 0)
  /\ UNCHANGED authVars /\ UNCHANGED <<ownerColumn, foreignKeys, uniqueNames, users, contacts, phones, contactSeq, phoneSeq, started>>

\* Table aliases the select list of the ownership query names, and those its FROM binds.
SelectAliases(op) == IF op = "DeletePhone" THEN {"cpn", "ac"} ELSE {"cpn", "c"}
FromAliases == {"cpn", "c"}

\* phone numbers: the phone joined with its contact, then 404 / 403.
PhoneOwnerCheck(r) ==
  LET q == req[r] IN
  /\ q.pc = "check"
  /\ q.op \in {"PutPhone", "DeletePhone"}
  /\ \E bad \in Raises :
       LET misnamed == ~(SelectAliases(q.op) \subseteq FromAliases)
                         \/ ~ColumnExists(OwnerIdent(q.file))
           found == q.id \in DOMAIN phones /\ phones[q.id].contact_id \in DOMAIN contacts
           owner == IF found THEN contacts[phones[q.id].contact_id].user_id ELSE 0
       IN
       /\ bad => ~misnamed
       /\ req' = [req EXCEPT ![r] =
            IF bad \/ misnamed THEN Finish(errorHandler(q), phones)
            ELSE IF ~found THEN Finish(apiResponse(q, 404), phones)
            ELSE IF owner # q.actor THEN Finish(apiResponse(q, 403), phones)
            ELSE [q EXCEPT !.pc = IF q.op = "PutPhone" THEN "begin" ELSE "delPhone"]]
       /\ faults' = faults + (IF bad THEN 1 ELSE 0)
  /\ UNCHANGED authVars /\ UNCHANGED <<ownerColumn, foreignKeys, uniqueNames, users, contacts, phones, contactSeq, phoneSeq, started>>

-----------------------------------------------------------------------------
(* Statements of the contact handlers. *)

\* Identifiers the parameter array of the INSERT reads, and those in scope.
PostContactParams(file) ==
  IF file = "contacts.js" THEN {"userId", "name", "isEmergency", "relationship", "image"}
  ELSE {"userId", "name", "is_emergency", "relationship", "image"}
PostContactDeclared(file) ==
  {"userId", "name", "is_emergency", "relationship", "image", "phone_numbers"}

\* apiResponse with contact.id ...: reading a field of undefined throws.
RespondContact(q, s) ==
  IF q.row THEN [apiResponse(q, s) EXCEPT !.pc = "commit"] ELSE ToRollback(q)

\* POST /: INSERT INTO contacts ... RETURNING *.
PostContactInsert(r) ==
  LET q == req[r] t == req[r].tx new == contactSeq + 1 IN
  /\ q.pc = "insert"
  /\ IF ~(PostContactParams(q.file) \subseteq PostContactDeclared(q.file))
       THEN \* ReferenceError while the arguments of client.query are evaluated
            /\ req' = [req EXCEPT ![r] = ToRollback(q)]
            /\ UNCHANGED <<contactSeq, faults>>
       ELSE /\ contactSeq < MaxContactId
            /\ ShareU(r, {q.actor})
            /\ \E bad \in Raises :
                 LET raised == bad \/ ~ColumnExists(OwnerIdent(q.file))
                                   \/ (FkDeclared /\ q.actor \notin DOMAIN ViewU(t))
                     q1 == [q EXCEPT !.writes = @ + 1]
                     q2 == [q1 EXCEPT !.cid = new, !.row = TRUE,
                                      !.tx.newC = @ \cup {new},
                                      !.tx.wC = (new :> [user_id |-> q.actor, name |-> "n1"]) @@ @]
                 IN
                 /\ bad => ColumnExists(OwnerIdent(q.file))
                 /\ req' = [req EXCEPT ![r] =
                      IF raised THEN ToRollback(q1)
                      ELSE IF Len(q.list) > 0 THEN [q2 EXCEPT !.pc = "insPhones", !.k = 1]
                      ELSE RespondContact(q2, 201)]
                 /\ contactSeq' = IF raised THEN contactSeq ELSE new
                 /\ faults' = faults + (IF bad THEN 1 ELSE 0)
  /\ UNCHANGED authVars /\ UNCHANGED <<ownerColumn, foreignKeys, uniqueNames, users, contacts, phones, phoneSeq, started>>

\* PUT /:id: UPDATE contacts SET name = COALESCE($1, name), ... RETURNING *.
PutContactUpdate(r) ==
  LET q == req[r] t == req[r].tx
      target == {q.id} \cap DOMAIN ViewC(t)
  IN
  /\ q.pc = "update"
  /\ FreeC(r, target)
  /\ \E bad \in Raises :
       LET q1 == [q EXCEPT !.writes = @ + 1]
           q2 == [q1 EXCEPT !.row = target # {},
                    !.tx.wC = IF target = {} THEN @
                              ELSE (q.id :> [ViewC(t)[q.id] EXCEPT
                                       !.name = COALESCE(Param(q.hasName, "n2"), @)]) @@ @,
                    !.pc = IF q.hasList THEN "delPhones" ELSE "selPhones"]
       IN
       /\ req' = [req EXCEPT ![r] = IF bad THEN ToRollback(q1) ELSE q2]
       /\ faults' = faults + (IF bad THEN 1 ELSE 0)
  /\ UNCHANGED authVars /\ UNCHANGED <<ownerColumn, foreignKeys, uniqueNames, users, contacts, phones, contactSeq, phoneSeq, started>>

\* PUT /:id and DELETE /:id: DELETE FROM contact_phone_numbers WHERE contact_id = $1.
DeletePhonesOf(r) ==
  LET q == req[r] t == req[r].tx
      target == PhonesOfIn(ViewP(t), q.id)
  IN
  /\ q.pc = "delPhones"
  /\ FreeP(r, target)
  /\ \E bad \in Raises :
       LET q1 == [q EXCEPT !.writes = @ + 1]
           q2 == [q1 EXCEPT !.tx.delP = @ \cup target]
       IN
       /\ req' = [req EXCEPT ![r] =
            IF bad THEN ToRollback(q1)
            ELSE IF q.op = "DeleteContact" THEN [q2 EXCEPT !.pc = "delContact"]
            ELSE IF Len(q.list) > 0 THEN [q2 EXCEPT !.pc = "insPhones", !.k = 1]
            ELSE IF q.file = "contacts.js" THEN [q2 EXCEPT !.pc = "selPhones"]
            ELSE RespondContact(q2, 200)]
       /\ faults' = faults + (IF bad THEN 1 ELSE 0)
  /\ UNCHANGED authVars /\ UNCHANGED <<ownerColumn, foreignKeys, uniqueNames, users, contacts, phones, contactSeq, phoneSeq, started>>

\* INSERT INTO contact_phone_numbers (contact_id, phone_number): one row per
\* statement in the loops of POST / and of part_004's PUT /:id and in
\* POST /phone-numbers, all rows in one statement in contacts.js' PUT /:id.
InsertPhones(r) ==
  LET q == req[r] t == req[r].tx
      c == IF q.op = "PostContact" THEN q.cid ELSE q.id
      multi == q.op = "PutContact" /\ q.file = "contacts.js"
      nums == IF q.op = "PostPhone" THEN <<q.number>>
              ELSE IF multi THEN q.list ELSE <<q.list[q.k]>>
      n == Len(nums)
      last == multi \/ q.op = "PostPhone" \/ q.k = Len(q.list)
  IN
  /\ q.pc = "insPhones"
  /\ phoneSeq + n <= MaxPhoneId
  /\ ShareC(r, {c})
  /\ \E bad \in Raises :
       LET raised == bad \/ (FkDeclared /\ c \notin DOMAIN ViewC(t))
           q1 == [q EXCEPT !.writes = @ + 1]
           q2 == [q1 EXCEPT !.out = @ \o nums, !.k = @ + 1,
                    !.tx.newP = @ \cup (phoneSeq + 1 .. phoneSeq + n),
                    !.tx.wP = [i \in phoneSeq + 1 .. phoneSeq + n |->
                                 [contact_id |-> c, phone_number |-> nums[i - phoneSeq]]] @@ @]
       IN
       /\ req' = [req EXCEPT ![r] =
            IF raised THEN ToRollback(q1)
            ELSE IF ~last THEN q2
            ELSE IF multi THEN [q2 EXCEPT !.pc = "selPhones", !.out = <<>>]
            ELSE IF q.op = "PostPhone" THEN [apiResponse(q2, 201) EXCEPT !.pc = "commit"]
            ELSE RespondContact(q2, IF q.op = "PostContact" THEN 201 ELSE 200)]
       /\ phoneSeq' = IF raised THEN phoneSeq ELSE phoneSeq + n
       /\ faults' = faults + (IF bad THEN 1 ELSE 0)
  /\ UNCHANGED authVars /\ UNCHANGED <<ownerColumn, foreignKeys, uniqueNames, users, contacts, phones, contactSeq, started>>

\* SELECT ... FROM contact_phone_numbers WHERE contact_id = $1: the rows come
\* in no order the statement fixes (ORDER BY contact_id ties them all), except
\* in GET /phone-numbers/contact/:contactId, which orders them by id.
SelectPhones(r) ==
  LET q == req[r] t == req[r].tx
      view == Snapshot(t)
      ids == PhonesOfIn(view, q.id)
  IN
  /\ q.pc = "selPhones"
  /\ \E bad \in Raises, ord \in Orderings(ids) :
       LET q2 == [q EXCEPT !.out = [i \in 1..Cardinality(ids) |-> view[ord[i]].phone_number]]
       IN
       /\ q.op = "GetPhones" => \A i, j \in DOMAIN ord : i < j => ord[i] < ord[j]
       /\ req' = [req EXCEPT ![r] =
            IF q.op \in {"GetContact", "GetPhones"}
              THEN IF bad THEN Finish(errorHandler(q), phones)
                   ELSE Finish(apiResponse(q2, 200), phones)
              ELSE IF bad THEN ToRollback(q) ELSE RespondContact(q2, 200)]
       /\ faults' = faults + (IF bad THEN 1 ELSE 0)
  /\ UNCHANGED authVars /\ UNCHANGED <<ownerColumn, foreignKeys, uniqueNames, users, contacts, phones, contactSeq, phoneSeq, started>>

\* Phones a DELETE of the contacts cs removes through ON DELETE CASCADE.
CascadeP(t, cs) == IF FkCascade THEN UNION {PhonesOfIn(ViewP(t), c) : c \in cs} ELSE {}

\* A DELETE of the contacts cs is refused while a phone number refers to one.
RestrictP(t, cs) == foreignKeys = "restrict" /\ \E c \in cs : PhonesOfIn(ViewP(t), c) # {}

\* DELETE /:id: DELETE FROM contacts WHERE id = $1, then 204.
DeleteContactRow(r) ==
  LET q == req[r] t == req[r].tx
      target == {q.id} \cap DOMAIN ViewC(t)
  IN
  /\ q.pc = "delContact"
  /\ FreeC(r, target) /\ UnrefC(r, target) /\ FreeP(r, CascadeP(t, target))
  /\ \E bad \in Raises :
       LET q1 == [q EXCEPT !.writes = @ + 1]
           q2 == [q1 EXCEPT !.tx.delC = @ \cup target,
                            !.tx.delP = @ \cup CascadeP(t, target)]
       IN
       /\ bad => ~RestrictP(t, target)
       /\ req' = [req EXCEPT ![r] =
            IF bad \/ RestrictP(t, target) THEN ToRollback(q1)
            ELSE [apiResponse(q2, 204) EXCEPT !.pc = "commit"]]
       /\ faults' = faults + (IF bad THEN 1 ELSE 0)
  /\ UNCHANGED authVars /\ UNCHANGED <<ownerColumn, foreignKeys, uniqueNames, users, contacts, phones, contactSeq, phoneSeq, started>>

-----------------------------------------------------------------------------
(* Statements of routes/phoneNumbers.js and routes/users.js. *)

\* PUT /phone-numbers/:id: UPDATE ... SET phone_number = COALESCE($1, phone_number)
\* inside a transaction; DELETE /phone-numbers/:id: DELETE ... through db.query.
PhoneWrite(r) ==
  LET q == req[r] t == req[r].tx
      view == IF t.on THEN ViewP(t) ELSE phones
      target == {q.id} \cap DOMAIN view
  IN
  /\ q.pc \in {"updPhone", "delPhone"}
  /\ FreeP(r, target)
  /\ \E bad \in Raises :
       LET q1 == [q EXCEPT !.writes = @ + 1]
           q2 == [q1 EXCEPT !.tx.wP =
                    IF target = {} THEN @
                    ELSE (q.id :> [view[q.id] EXCEPT
                            !.phone_number = COALESCE(Param(q.number # "", q.number), @)]) @@ @]
       IN
       /\ faults' = faults + (IF bad THEN 1 ELSE 0)
       /\ IF q.pc = "updPhone"
            THEN /\ req' = [req EXCEPT ![r] =
                      IF bad THEN ToRollback(q1)
                      ELSE [apiResponse(q2, 200) EXCEPT !.pc = "commit"]]
                 /\ phones' = phones
            ELSE /\ phones' = IF bad THEN phones
                              ELSE [p \in DOMAIN phones \ target |-> phones[p]]
                 /\ req' = [req EXCEPT ![r] =
                      IF bad THEN Finish(errorHandler(q1), phones')
                      ELSE Finish(apiResponse(q1, 204), phones')]
  /\ UNCHANGED authVars /\ UNCHANGED <<ownerColumn, foreignKeys, uniqueNames, users, contacts, contactSeq, phoneSeq, started>>

\* PUT /users/:id: UPDATE users SET <updates> WHERE id = $n RETURNING ...;
\* no row returned answers 404.
UserUpdate(r) ==
  LET q == req[r]
      target == {q.id} \cap DOMAIN users
  IN
  /\ q.pc = "updUser"
  /\ FreeU(r, target)
  /\ \E bad \in Raises :
       LET q1 == [q EXCEPT !.writes = @ + 1] IN
       /\ faults' = faults + (IF bad THEN 1 ELSE 0)
       /\ users' = IF bad THEN users
                   ELSE [u \in DOMAIN users |->
                           IF u \in target
                             THEN [f \in DOMAIN users[u] |->
                                     IF \E i \in DOMAIN updates(q) : updates(q)[i] = f
                                       THEN 1 ELSE users[u][f]]
                             ELSE users[u]]
       /\ req' = [req EXCEPT ![r] =
            IF bad THEN Finish(errorHandler(q1), phones)
            ELSE IF target = {} THEN Finish(apiResponse(q1, 404), phones)
            ELSE Finish(apiResponse(q1, 200), phones)]
  /\ UNCHANGED authVars /\ UNCHANGED <<ownerColumn, foreignKeys, uniqueNames, contacts, phones, contactSeq, phoneSeq, started>>

\* DELETE /users/:id: DELETE FROM contacts WHERE user_id = $1.
DeleteUserContacts(r) ==
  LET q == req[r] t == req[r].tx
      target == ContactsOfIn(ViewC(t), q.id)
  IN
  /\ q.pc = "delContacts"
  /\ FreeC(r, target) /\ UnrefC(r, target) /\ FreeP(r, CascadeP(t, target))
  /\ \E bad \in Raises :
       LET raised == bad \/ ~ColumnExists("user_id") \/ RestrictP(t, target)
           q1 == [q EXCEPT !.writes = @ + 1]
           q2 == [q1 EXCEPT !.tx.delC = @ \cup target,
                            !.tx.delP = @ \cup CascadeP(t, target),
                            !.pc = "delUser"]
       IN
       /\ bad => ColumnExists("user_id") /\ ~RestrictP(t, target)
       /\ req' = [req EXCEPT ![r] = IF raised THEN ToRollback(q1) ELSE q2]
       /\ faults' = faults + (IF bad THEN 1 ELSE 0)
  /\ UNCHANGED authVars /\ UNCHANGED <<ownerColumn, foreignKeys, uniqueNames, users, contacts, phones, contactSeq, phoneSeq, started>>

\* Contacts a DELETE of the users us removes through ON DELETE CASCADE.
CascadeC(t, us) == IF FkCascade THEN UNION {ContactsOfIn(ViewC(t), u) : u \in us} ELSE {}

\* A DELETE of the users us is refused while a contact refers to one.
RestrictC(t, us) == foreignKeys = "restrict" /\ \E u \in us : ContactsOfIn(ViewC(t), u) # {}

\* DELETE /users/:id: DELETE FROM users WHERE id = $1 RETURNING id; no row
\* returned answers 404 and returns from the callback.
DeleteUserRow(r) ==
  LET q == req[r] t == req[r].tx
      target == {q.id} \cap DOMAIN ViewU(t)
      cs == CascadeC(t, target)
  IN
  /\ q.pc = "delUser"
  /\ FreeU(r, target) /\ UnrefU(r, target)
  /\ FreeC(r, cs) /\ UnrefC(r, cs) /\ FreeP(r, CascadeP(t, cs))
  /\ \E bad \in Raises :
       LET q1 == [q EXCEPT !.writes = @ + 1]
           q2 == [q1 EXCEPT !.tx.delU = @ \cup target,
                            !.tx.delC = @ \cup cs,
                            !.tx.delP = @ \cup CascadeP(t, cs),
                            !.pc = "commit"]
       IN
       /\ bad => ~RestrictC(t, target)
       /\ req' = [req EXCEPT ![r] =
            IF bad \/ RestrictC(t, target) THEN ToRollback(q1)
            ELSE apiResponse(q2, IF target = {} THEN 404 ELSE 204)]
       /\ faults' = faults + (IF bad THEN 1 ELSE 0)
  /\ UNCHANGED authVars /\ UNCHANGED <<ownerColumn, foreignKeys, uniqueNames, users, contacts, phones, contactSeq, phoneSeq, started>>

-----------------------------------------------------------------------------
(* The service. *)

NewUser == [f \in {UserFields[i] : i \in 1..Len(UserFields)} |-> 0]

\* The store holds the users of the tokens in use and one contact of user 1
\* with two phone numbers; no request is in flight.
Init ==
  /\ ownerColumn \in {"user_id", "userid"}
  /\ foreignKeys \in {"none", "restrict", "cascade"}
  /\ uniqueNames = FALSE
  /\ users = [u \in Users |-> NewUser]
  /\ contacts = (1 :> [user_id |-> 1, name |-> "n0"])
  /\ phones = (1 :> [contact_id |-> 1, phone_number |-> "a"])
                @@ (2 :> [contact_id |-> 1, phone_number |-> "b"])
  /\ contactSeq = 1
  /\ phoneSeq = 2
  /\ req = [r \in Reqs |-> Idle]
  /\ started = 0
  /\ faults = 0
  /\ now = 0
  /\ codes = {}
  /\ tokens = {}

Next ==
  \E r \in Reqs :
    \/ Start(r)
    \/ ContactOwnerCheck(r)
    \/ PhoneOwnerCheck(r)
    \/ TxBegin(r)
    \/ PostContactInsert(r)
    \/ PutContactUpdate(r)
    \/ DeletePhonesOf(r)
    \/ InsertPhones(r)
    \/ SelectPhones(r)
    \/ DeleteContactRow(r)
    \/ PhoneWrite(r)
    \/ UserUpdate(r)
    \/ DeleteUserContacts(r)
    \/ DeleteUserRow(r)
    \/ TxCommit(r)
    \/ TxRollback(r)

Spec == Init /\ [][Next]_vars

-----------------------------------------------------------------------------
(* One client working on one contact: create it with two phone numbers,     *)
(* clear its list, read, update it without a list, read; each request is    *)
(* sent when the answer to the one before has arrived.                      *)

ScriptOps == <<"PostContact", "PutContact", "GetContact", "PutContact", "GetContact">>
ScenarioSteps == Len(ScriptOps)
Steps == 1..ScenarioSteps

\* The contact the client addresses: the one its creation returned, or the
\* next id of the sequence when the creation returned none.
Created == IF req[1].cid # 0 THEN req[1].cid ELSE contactSeq + 1

Script(f) ==
  <<In("PostContact", f, 1, 0, [hasName |-> TRUE, hasList |-> TRUE, list |-> <<"y", "x">>], "", {}),
    In("PutContact", f, 1, Created, [hasName |-> FALSE, hasList |-> TRUE, list |-> <<>>], "", {}),
    In("GetContact", "part_004", 1, Created, NoBody, "", {}),
    In("PutContact", f, 1, Created, [hasName |-> TRUE, hasList |-> FALSE, list |-> <<>>], "", {}),
    In("GetContact", "part_004", 1, Created, NoBody, "", {})>>

ScenarioStart(r) ==
  /\ started < ScenarioSteps
  /\ \A o \in DOMAIN req : ~Active(o)
  /\ \E f \in ContactFiles :
       /\ started > 0 => f = req[1].file
       /\ Arrive(r, Script(f)[started + 1])

ScenarioInit ==
  /\ ownerColumn \in {"user_id", "userid"}
  /\ foreignKeys \in {"none", "restrict", "cascade"}
  /\ uniqueNames = FALSE
  /\ users = [u \in Users |-> NewUser]
  /\ contacts = (1 :> [user_id |-> 1, name |-> "n0"])
  /\ phones = (1 :> [contact_id |-> 1, phone_number |-> "a"])
                @@ (2 :> [contact_id |-> 1, phone_number |-> "b"])
  /\ contactSeq = 1
  /\ phoneSeq = 2
  /\ req = [r \in Steps |-> Idle]
  /\ started = 0
  /\ faults = 0
  /\ now = 0
  /\ codes = {}
  /\ tokens = {}

ScenarioNext ==
  \E r \in Steps :
    \/ ScenarioStart(r)
    \/ ContactOwnerCheck(r)
    \/ TxBegin(r)
    \/ PostContactInsert(r)
    \/ PutContactUpdate(r)
    \/ DeletePhonesOf(r)
    \/ InsertPhones(r)
    \/ SelectPhones(r)
    \/ TxCommit(r)
    \/ TxRollback(r)

SpecScenario == ScenarioInit /\ [][ScenarioNext]_vars

-----------------------------------------------------------------------------
(* Lists: GET /contacts/users/:userId/ and GET /users/all.                  *)

DefaultPage == 1
DefaultLimit == 10

MaxListContacts == 2
MaxPhonesEach == 2
MaxPage == 3
MaxLimit == 2

\* parseInt(req.query.x) || d: a missing, non-numeric or zero value gives d.
ParseOr(raw, d) == IF raw = 0 THEN d ELSE raw

\* utils: paginate (and the same three lines of GET /users/all).
paginate(q, rawPage, rawLimit) ==
  LET page == ParseOr(rawPage, DefaultPage)
      limit == ParseOr(rawLimit, DefaultLimit)
  IN [q EXCEPT !.page = page, !.limit = limit, !.offset = (page - 1) * limit]

\* Math.ceil(a / b) for b > 0.
Ceil(a, b) == (a + b - 1) \div b

\* A hasNext that counts the last page as having a next one.
HasNextInclusive(page, totalPages) == page <= totalPages
\* hasNext and hasPrevious of GET /users/all.
HasNext(page, totalPages) == page < totalPages
HasPrevious(page) == page > 1

Names == <<"n0", "n1", "n2", "n3">>
NameRank(n) == CHOOSE i \in 1..Len(Names) : Names[i] = n

\* Rows of contacts LEFT JOIN contact_phone_numbers for owner u: one row
\* <<contact, phone>> per phone number, <<contact, 0>> for a contact with none.
JoinRows(u) ==
  {<<phones[p].contact_id, p>> :
     p \in {x \in DOMAIN phones : phones[x].contact_id \in ContactsOfIn(contacts, u)}}
  \cup {<<c, 0>> : c \in {d \in ContactsOfIn(contacts, u) : PhonesOfIn(phones, d) = {}}}

\* ORDER BY c.is_emergency DESC, c.name ASC (is_emergency is the same for
\* every contact here): rows with equal keys come in any order.
RECURSIVE SortedRows(_)
SortedRows(S) ==
  IF S = {} THEN {<<>>}
  ELSE UNION {{<<x>> \o t : t \in SortedRows(S \ {x})} :
                x \in {y \in S : \A z \in S :
                         NameRank(contacts[y[1]].name) <= NameRank(contacts[z[1]].name)}}

\* LIMIT l OFFSET o of a row sequence.
Window(s, o, l) == SubSeq(s, o + 1, IF o + l < Len(s) THEN o + l ELSE Len(s))

RECURSIVE Distinct(_)
Distinct(s) ==
  IF s = <<>> THEN <<>>
  ELSE <<Head(s)>> \o Distinct(SelectSeq(Tail(s), LAMBDA x : x # Head(s)))

\* contactsMap: one entry per contact id in the order of first appearance,
\* its phone numbers in the order of their rows.
GroupRows(w) ==
  LET ids == Distinct([i \in 1..Len(w) |-> w[i][1]])
      rowsOf(c) == SelectSeq(w, LAMBDA x : x[1] = c /\ x[2] # 0)
  IN [i \in 1..Len(ids) |->
        [id |-> ids[i],
         phone_numbers |-> [j \in 1..Len(rowsOf(ids[i])) |->
                              phones[rowsOf(ids[i])[j][2]].phone_number]]]

ListInputs ==
  {paginate([Idle EXCEPT !.op = "ListContacts", !.file = f, !.actor = a, !.id = u], pg, lm) :
      f \in ContactFiles, a \in Users, u \in Users, pg \in -1..MaxPage, lm \in 0..MaxLimit}
  \cup {paginate([Idle EXCEPT !.op = "ListContacts", !.file = Rev3, !.actor = a, !.id = u,
                              !.quser = qu], pg, lm) :
      a \in Users, u \in Users, qu \in {0} \cup Users, pg \in -1..MaxPage, lm \in 0..MaxLimit}
  \cup {paginate([Idle EXCEPT !.op = "ListUsers", !.file = "users.js", !.actor = a], pg, lm) :
      a \in Users, pg \in -1..MaxPage, lm \in 0..MaxLimit}

ListStart(r) == \E i \in ListInputs : Arrive(r, i)

\* GET /contacts/users/:userId/: the joined rows, LIMIT $2 OFFSET $3.
ListContactsRows(r) ==
  LET q == req[r] IN
  /\ q.pc = "listRows"
  /\ \E bad \in Raises, s \in SortedRows(JoinRows(ListOwner(q))) :
       LET raised == bad \/ ~ColumnExists(OwnerIdent(q.file)) \/ q.offset < 0 \/ q.limit < 0
       IN
       /\ bad => ColumnExists(OwnerIdent(q.file)) /\ q.offset >= 0 /\ q.limit >= 0
       /\ req' = [req EXCEPT ![r] =
            IF raised THEN Finish(errorHandler(q), phones)
            ELSE [q EXCEPT !.out = IF q.file = Rev3
                                      THEN Window(GroupRows(s), q.offset, q.limit)
                                      ELSE GroupRows(Window(s, q.offset, q.limit)),
                           !.pc = "listCount"]]
       /\ faults' = faults + (IF bad THEN 1 ELSE 0)
  /\ UNCHANGED authVars /\ UNCHANGED <<ownerColumn, foreignKeys, uniqueNames, users, contacts, phones, contactSeq, phoneSeq, started>>

\* GET /contacts/users/:userId/: SELECT COUNT(*), then the response.
ListContactsCount(r) ==
  LET q == req[r]
      total == Cardinality(ContactsOfIn(contacts, ListOwner(q)))
  IN
  /\ q.pc = "listCount"
  /\ \E bad \in Raises :
       /\ req' = [req EXCEPT ![r] =
            IF bad THEN Finish(errorHandler(q), phones)
            ELSE Finish(apiResponse([q EXCEPT !.meta =
                   [total |-> total,
                    page |-> IF q.file = Rev3 THEN q.page ELSE Ceil(q.offset, q.limit) + 1,
                    limit |-> q.limit, pages |-> Ceil(total, q.limit)]], 200), phones)]
       /\ faults' = faults + (IF bad THEN 1 ELSE 0)
  /\ UNCHANGED authVars /\ UNCHANGED <<ownerColumn, foreignKeys, uniqueNames, users, contacts, phones, contactSeq, phoneSeq, started>>

\* GET /users/all: SELECT COUNT(*) FROM users.
ListUsersCount(r) ==
  LET q == req[r] IN
  /\ q.pc = "countUsers"
  /\ \E bad \in Raises :
       /\ req' = [req EXCEPT ![r] =
            IF bad THEN Finish(errorHandler(q), phones)
            ELSE [q EXCEPT !.meta = [total |-> Cardinality(DOMAIN users)], !.pc = "listUsers"]]
       /\ faults' = faults + (IF bad THEN 1 ELSE 0)
  /\ UNCHANGED authVars /\ UNCHANGED <<ownerColumn, foreignKeys, uniqueNames, users, contacts, phones, contactSeq, phoneSeq, started>>

\* GET /users/all: SELECT ... ORDER BY created_at DESC LIMIT $1 OFFSET $2,
\* then the response.
ListUsersRows(r) ==
  LET q == req[r]
      total == q.meta.total
      totalPages == Ceil(total, q.limit)
  IN
  /\ q.pc = "listUsers"
  /\ \E bad \in Raises, s \in Orderings(DOMAIN users) :
       LET raised == bad \/ q.offset < 0 \/ q.limit < 0 IN
       /\ bad => q.offset >= 0 /\ q.limit >= 0
       /\ req' = [req EXCEPT ![r] =
            IF raised THEN Finish(errorHandler(q), phones)
            ELSE Finish(apiResponse([q EXCEPT
                   !.out = Window(s, q.offset, q.limit),
                   !.meta = [page |-> q.page, limit |-> q.limit, total |-> total,
                             totalPages |-> totalPages,
                             hasNext |-> HasNext(q.page, totalPages),
                             hasPrevious |-> HasPrevious(q.page)]], 200), phones)]
       /\ faults' = faults + (IF bad THEN 1 ELSE 0)
  /\ UNCHANGED authVars /\ UNCHANGED <<ownerColumn, foreignKeys, uniqueNames, users, contacts, phones, contactSeq, phoneSeq, started>>

\* A store of up to MaxUser users, user 1 owning up to MaxListContacts
\* contacts of up to MaxPhonesEach phone numbers each.
ListInit ==
  /\ ownerColumn \in {"user_id", "userid"}
  /\ foreignKeys = "cascade"
  /\ uniqueNames = FALSE
  /\ \E nU \in 0..MaxUser, nC \in 0..MaxListContacts :
       \E cnt \in [1..nC -> 0..MaxPhonesEach] :
         /\ nU = 0 => nC = 0
         /\ users = [u \in 1..nU |-> NewUser]
         /\ contacts = [c \in 1..nC |-> [user_id |-> 1, name |-> Names[c]]]
         /\ phones = [p \in UNION {{MaxPhonesEach * (c - 1) + k : k \in 1..cnt[c]} : c \in 1..nC}
                        |-> [contact_id |-> ((p - 1) \div MaxPhonesEach) + 1, phone_number |-> "a"]]
         /\ contactSeq = nC
         /\ phoneSeq = MaxPhonesEach * nC
  /\ req = [r \in {1} |-> Idle]
  /\ started = 0
  /\ faults = 0
  /\ now = 0
  /\ codes = {}
  /\ tokens = {}

ListNext ==
  \/ ListStart(1)
  \/ ListContactsRows(1)
  \/ ListContactsCount(1)
  \/ ListUsersCount(1)
  \/ ListUsersRows(1)

SpecList == ListInit /\ [][ListNext]_vars

-----------------------------------------------------------------------------
(* libs/db.js: the connection pool and the transaction helper on its own.   *)
(* req holds one record per call of transaction().                          *)

PoolMax == 5
MaxCalls == 3
MaxPoolFaults == 2

Calls == 1..MaxCalls
Clients == 1..PoolMax

NoError == "none"

\* A call before 'await pool.connect()'.
NewCall ==
  [pc |-> "connect", client |-> 0, held |-> FALSE, e |-> NoError, first |-> NoError,
   log |-> <<>>, releases |-> 0, thrown |-> NoError, returned |-> FALSE]

\* Whether the next statement or connect rejects.
Rejects == {FALSE} \cup (IF faults < MaxPoolFaults THEN {TRUE} ELSE {})

\* Clients of the pool no call has checked out.
IdleClients == {k \in Clients : \A c \in DOMAIN req : ~(req[c].held /\ req[c].client = k)}

\* An error thrown inside the try block: control moves to the catch block.
Caught(q, err) == [q EXCEPT !.e = err, !.first = err, !.pc = "rollback"]

\* const client = await pool.connect(): a rejection leaves transaction()
\* before the try block.
poolConnect(c) ==
  LET q == req[c] IN
  /\ q.pc = "connect"
  /\ \E bad \in Rejects :
       /\ faults' = faults + (IF bad THEN 1 ELSE 0)
       /\ IF bad
            THEN req' = [req EXCEPT ![c] = [q EXCEPT !.pc = "done", !.thrown = "connect"]]
            ELSE \E k \in IdleClients :
                   req' = [req EXCEPT ![c] = [q EXCEPT !.client = k, !.held = TRUE,
                                                       !.pc = "begin"]]
  /\ UNCHANGED authVars /\ UNCHANGED <<ownerColumn, foreignKeys, uniqueNames, users, contacts, phones, contactSeq, phoneSeq, started>>

\* await client.query('BEGIN').
clientBegin(c) ==
  LET q == [req[c] EXCEPT !.log = Append(@, "BEGIN")] IN
  /\ req[c].pc = "begin"
  /\ \E bad \in Rejects :
       /\ faults' = faults + (IF bad THEN 1 ELSE 0)
       /\ req' = [req EXCEPT ![c] = IF bad THEN Caught(q, "begin")
                                    ELSE [q EXCEPT !.pc = "callback"]]
  /\ UNCHANGED authVars /\ UNCHANGED <<ownerColumn, foreignKeys, uniqueNames, users, contacts, phones, contactSeq, phoneSeq, started>>

\* const result = await callback(client): the body returns or throws.
callback(c) ==
  LET q == req[c] IN
  /\ q.pc = "callback"
  /\ \E throws \in BOOLEAN :
       req' = [req EXCEPT ![c] = IF throws THEN Caught(q, "callback")
                                 ELSE [q EXCEPT !.pc = "commit"]]
  /\ UNCHANGED authVars /\ UNCHANGED <<ownerColumn, foreignKeys, uniqueNames, users, contacts, phones, contactSeq, phoneSeq,
                 started, faults>>

\* await client.query('COMMIT'); return result.
clientCommit(c) ==
  LET q == [req[c] EXCEPT !.log = Append(@, "COMMIT")] IN
  /\ req[c].pc = "commit"
  /\ \E bad \in Rejects :
       /\ faults' = faults + (IF bad THEN 1 ELSE 0)
       /\ req' = [req EXCEPT ![c] = IF bad THEN Caught(q, "commit")
                                    ELSE [q EXCEPT !.returned = TRUE, !.pc = "release"]]
  /\ UNCHANGED authVars /\ UNCHANGED <<ownerColumn, foreignKeys, uniqueNames, users, contacts, phones, contactSeq, phoneSeq, started>>

\* catch (e) { await client.query('ROLLBACK'); throw e; }: a rejection of the
\* ROLLBACK leaves the catch block in place of 'throw e'.
clientRollback(c) ==
  LET q == [req[c] EXCEPT !.log = Append(@, "ROLLBACK"), !.pc = "release"] IN
  /\ req[c].pc = "rollback"
  /\ \E bad \in Rejects :
       /\ faults' = faults + (IF bad THEN 1 ELSE 0)
       /\ req' = [req EXCEPT ![c] = IF bad THEN [q EXCEPT !.e = "rollback"] ELSE q]
  /\ UNCHANGED authVars /\ UNCHANGED <<ownerColumn, foreignKeys, uniqueNames, users, contacts, phones, contactSeq, phoneSeq, started>>

\* finally { client.release(); }
finally(q) == [q EXCEPT !.held = FALSE, !.releases = @ + 1, !.log = Append(@, "release")]

\* The finally block, then the pending return or throw completes the call.
clientRelease(c) ==
  /\ req[c].pc = "release"
  /\ req' = [req EXCEPT ![c] = [finally(req[c]) EXCEPT !.thrown = req[c].e, !.pc = "done"]]
  /\ UNCHANGED authVars /\ UNCHANGED <<ownerColumn, foreignKeys, uniqueNames, users, contacts, phones, contactSeq, phoneSeq,
                 started, faults>>

PoolInit ==
  /\ ownerColumn = "user_id"
  /\ foreignKeys = "none"
  /\ uniqueNames = FALSE
  /\ users = NoRows
  /\ contacts = NoRows
  /\ phones = NoRows
  /\ contactSeq = 0
  /\ phoneSeq = 0
  /\ started = 0
  /\ faults = 0
  /\ now = 0
  /\ codes = {}
  /\ tokens = {}
  /\ req = [c \in Calls |-> NewCall]

PoolNext ==
  \E c \in Calls :
    \/ poolConnect(c)
    \/ clientBegin(c)
    \/ callback(c)
    \/ clientCommit(c)
    \/ clientRollback(c)
    \/ clientRelease(c)

SpecPool == PoolInit /\ [][PoolNext]_vars

-----------------------------------------------------------------------------
(* libs/utils.js authenticate / generateToken and routes/auth.js: tokens.   *)
(* The clock counts hours; req holds one record per request.                *)

MaxAuthReq == 2
AuthReqs == 1..MaxAuthReq

\* expiresIn: '1h' of the token generator local to the earlier users router.
SignupHours == 1
\* 'expiry: 60 * 60 * 24 * 7' of the login and refresh responses, in hours.
AnnouncedHours == (60 * 60 * 24 * 7) \div (60 * 60)

\* The instants the clock visits: around both lifetimes.
Instants == {0, SignupHours, SignupHours + 1, AnnouncedHours, AnnouncedHours + 1}

\* What a request carries in its Authorization header.
Missing == [kind |-> "missing", userId |-> 0, iat |-> 0, hasExp |-> FALSE, exp |-> 0]
Forged == [kind |-> "forged", userId |-> 1, iat |-> 0, hasExp |-> FALSE, exp |-> 0]

\* utils.generateToken: jwt.sign(payload, secret, {}) sets iat and no exp.
generateToken(userId) ==
  [kind |-> "signed", userId |-> userId, iat |-> now, hasExp |-> FALSE, exp |-> 0]

\* The generator of the earlier users router: jwt.sign(..., {expiresIn: '1h'}).
generateTokenSignup(userId) ==
  [kind |-> "signed", userId |-> userId, iat |-> now, hasExp |-> TRUE,
   exp |-> now + SignupHours]

\* jwt.verify: the signature is ours and, if the token has an exp claim, the
\* clock has not reached it.
jwtVerify(tk) == tk.kind = "signed" /\ (tk.hasExp => now < tk.exp)

AuthIdle ==
  [op |-> "none", pc |-> "idle", token |-> Missing, user |-> 0, ok |-> FALSE,
   status |-> 0, verified |-> FALSE, at |-> 0, queries |-> 0, issued |-> Missing,
   announced |-> 0]

\* Routes mounted behind authenticate.
Protected == {"refresh", "PutUser"}
\* Routes of routes/auth.js and of the earlier users router with no authenticate.
Open == {"login", "register", "signup", "forgot-password"}

AuthInputs ==
  {[AuthIdle EXCEPT !.op = op, !.token = tk, !.user = u, !.ok = ok] :
     op \in Protected \cup Open, tk \in {Missing, Forged} \cup tokens,
     u \in Users, ok \in BOOLEAN}

\* A request arrives; express runs the route's middleware chain.
AuthStart(r) ==
  /\ req[r].pc = "idle"
  /\ \A o \in AuthReqs : o < r => req[o].pc # "idle"
  /\ \E i \in AuthInputs :
       /\ i.op \in Open => i.token = Missing
       /\ i.op \in Protected => i.ok
       /\ req' = [req EXCEPT ![r] =
            [i EXCEPT !.pc = IF i.op \in Protected THEN "authenticate" ELSE i.op]]
  /\ UNCHANGED <<ownerColumn, foreignKeys, uniqueNames, users, contacts, phones, contactSeq, phoneSeq,
                 started, faults, now, codes, tokens>>

\* utils.authenticate: 401 unless jwt.verify accepts the bearer token.
authenticate(r) ==
  LET q == req[r] IN
  /\ q.pc = "authenticate"
  /\ req' = [req EXCEPT ![r] =
       IF q.token.kind = "missing" \/ ~jwtVerify(q.token)
         THEN [q EXCEPT !.status = 401, !.pc = "done"]
         ELSE [q EXCEPT !.verified = TRUE, !.at = now, !.pc = q.op]]
  /\ UNCHANGED <<ownerColumn, foreignKeys, uniqueNames, users, contacts, phones, contactSeq, phoneSeq,
                 started, faults, now, codes, tokens>>

\* POST /auth/login: find the user, compare the password, sign a token; the
\* first revision of the route announces a lifetime of seven days.
login(r) ==
  LET q == [req[r] EXCEPT !.queries = @ + 1] IN
  /\ req[r].pc = "login"
  /\ IF q.ok /\ q.user \in DOMAIN users
       THEN \E rev \in {1, 2} :
              /\ tokens' = tokens \cup {generateToken(q.user)}
              /\ req' = [req EXCEPT ![r] =
                   [q EXCEPT !.issued = generateToken(q.user), !.status = 200,
                             !.announced = IF rev = 1 THEN AnnouncedHours ELSE 0,
                             !.pc = "done"]]
       ELSE /\ tokens' = tokens
            /\ req' = [req EXCEPT ![r] = [q EXCEPT !.status = 401, !.pc = "done"]]
  /\ UNCHANGED <<ownerColumn, foreignKeys, uniqueNames, users, contacts, phones, contactSeq, phoneSeq,
                 started, faults, now, codes>>

\* POST /auth/register and POST /users/signup: insert the user unless it
\* exists, sign a token with the generator of the file.
register(r) ==
  LET q == [req[r] EXCEPT !.queries = @ + 1]
      new == MaxUser + 1
      tk == IF q.op = "signup" THEN generateTokenSignup(new) ELSE generateToken(new)
  IN
  /\ req[r].pc \in {"register", "signup"}
  /\ IF new \in DOMAIN users
       THEN /\ UNCHANGED <<users, tokens>>
            /\ req' = [req EXCEPT ![r] =
                 [q EXCEPT !.status = IF q.op = "signup" THEN 409 ELSE 400, !.pc = "done"]]
       ELSE /\ users' = (new :> NewUser) @@ users
            /\ tokens' = tokens \cup {tk}
            /\ req' = [req EXCEPT ![r] =
                 [q EXCEPT !.queries = @ + 1, !.issued = tk, !.status = 201, !.pc = "done"]]
  /\ UNCHANGED <<ownerColumn, foreignKeys, uniqueNames, contacts, phones, contactSeq, phoneSeq,
                 started, faults, now, codes>>

\* POST /auth/refresh: a new token for req.user.userId.
refresh(r) ==
  LET q == req[r] tk == generateToken(req[r].token.userId) IN
  /\ q.pc = "refresh"
  /\ tokens' = tokens \cup {tk}
  /\ \E rev \in {1, 2} :
       req' = [req EXCEPT ![r] =
         [q EXCEPT !.issued = tk, !.status = 200,
                   !.announced = IF rev = 1 THEN AnnouncedHours ELSE 0, !.pc = "done"]]
  /\ UNCHANGED <<ownerColumn, foreignKeys, uniqueNames, users, contacts, phones, contactSeq, phoneSeq,
                 started, faults, now, codes>>

\* POST /auth/forgot-password: SELECT id FROM users WHERE phone_number = $1,
\* then UPDATE users SET password = $1 WHERE phone_number = $2.
forgotPassword(r) ==
  LET q == [req[r] EXCEPT !.queries = @ + 1] IN
  /\ req[r].pc = "forgot-password"
  /\ IF q.ok /\ q.user \in DOMAIN users
       THEN /\ users' = [users EXCEPT ![q.user].password = 1]
            /\ req' = [req EXCEPT ![r] =
                 [q EXCEPT !.queries = @ + 1, !.status = 200, !.pc = "done"]]
       ELSE /\ users' = users
            /\ req' = [req EXCEPT ![r] = [q EXCEPT !.status = 404, !.pc = "done"]]
  /\ UNCHANGED <<ownerColumn, foreignKeys, uniqueNames, contacts, phones, contactSeq, phoneSeq,
                 started, faults, now, codes, tokens>>

\* PUT /users/:id with a password, behind authenticate: 403 for another
\* user's id, else UPDATE users SET password = ..., 404 if no row.
putPassword(r) ==
  LET q == req[r] IN
  /\ q.pc = "PutUser"
  /\ IF q.user # q.token.userId
       THEN /\ users' = users
            /\ req' = [req EXCEPT ![r] = [q EXCEPT !.status = 403, !.pc = "done"]]
       ELSE /\ users' = IF q.user \in DOMAIN users
                          THEN [users EXCEPT ![q.user].password = 1] ELSE users
            /\ req' = [req EXCEPT ![r] =
                 [q EXCEPT !.queries = @ + 1, !.pc = "done",
                           !.status = IF q.user \in DOMAIN users THEN 200 ELSE 404]]
  /\ UNCHANGED <<ownerColumn, foreignKeys, uniqueNames, contacts, phones, contactSeq, phoneSeq,
                 started, faults, now, codes, tokens>>

\* Time passes.
AuthTick ==
  /\ \E t \in Instants : t > now /\ now' = t
  /\ UNCHANGED <<ownerColumn, foreignKeys, uniqueNames, users, contacts, phones, contactSeq, phoneSeq,
                 req, started, faults, codes, tokens>>

AuthInit ==
  /\ ownerColumn = "user_id"
  /\ foreignKeys = "none"
  /\ uniqueNames = FALSE
  /\ users = [u \in Users |-> NewUser]
  /\ contacts = NoRows
  /\ phones = NoRows
  /\ contactSeq = 0
  /\ phoneSeq = 0
  /\ started = 0
  /\ faults = 0
  /\ now = 0
  /\ codes = {}
  /\ tokens = {}
  /\ req = [r \in AuthReqs |-> AuthIdle]

AuthNext ==
  \/ AuthTick
  \/ \E r \in AuthReqs :
       \/ AuthStart(r)
       \/ authenticate(r)
       \/ login(r)
       \/ register(r)
       \/ refresh(r)
       \/ forgotPassword(r)
       \/ putPassword(r)

SpecAuth == AuthInit /\ [][AuthNext]_vars

-----------------------------------------------------------------------------
(* routes/auth.js: password-reset codes.  The clock counts minutes.         *)

MaxResetReq == 3
MaxMinutes == 11
ResetReqs == 1..MaxResetReq

\* NOW() + INTERVAL '10 minutes'.
CodeMinutes == 10

\* Values of Math.floor(100000 + Math.random() * 900000).toString().
CodeValues == {"100000", "999999"}

ResetIdle ==
  [op |-> "none", pc |-> "idle", phone |-> 0, code |-> "", status |-> 0,
   at |-> 0, matched |-> {}]

ResetInputs ==
  {[ResetIdle EXCEPT !.op = "send-reset-code", !.phone = u] : u \in Users \cup {MaxUser + 1}}
  \cup {[ResetIdle EXCEPT !.op = "verify-reset-code", !.phone = u, !.code = c] :
          u \in Users, c \in CodeValues}

ResetStart(r) ==
  /\ req[r].pc = "idle"
  /\ \A o \in ResetReqs : o < r => req[o].pc # "idle"
  /\ \E i \in ResetInputs :
       req' = [req EXCEPT ![r] =
         [i EXCEPT !.pc = IF i.op = "send-reset-code" THEN "findUser" ELSE "select"]]
  /\ started' = started + 1
  /\ UNCHANGED <<ownerColumn, foreignKeys, uniqueNames, users, contacts, phones, contactSeq, phoneSeq,
                 faults, now, codes, tokens>>

\* send-reset-code: SELECT id FROM users WHERE phone_number = $1; 404 if none.
sendFindUser(r) ==
  LET q == req[r] IN
  /\ q.pc = "findUser"
  /\ req' = [req EXCEPT ![r] =
       IF q.phone \in DOMAIN users THEN [q EXCEPT !.pc = "insert"]
       ELSE [q EXCEPT !.status = 404, !.pc = "done"]]
  /\ UNCHANGED <<ownerColumn, foreignKeys, uniqueNames, users, contacts, phones, contactSeq, phoneSeq,
                 started, faults, now, codes, tokens>>

\* send-reset-code: INSERT INTO password_reset_codes (phone_number, code,
\* expires_at) VALUES ($1, $2, NOW() + INTERVAL '10 minutes'); 200.
sendInsertCode(r) ==
  LET q == req[r] IN
  /\ q.pc = "insert"
  /\ \E c \in CodeValues :
       /\ codes' = codes \cup {[serial |-> r, phone_number |-> q.phone, code |-> c,
                                expires_at |-> now + CodeMinutes]}
       /\ req' = [req EXCEPT ![r] = [q EXCEPT !.code = c, !.status = 200, !.pc = "done"]]
  /\ UNCHANGED <<ownerColumn, foreignKeys, uniqueNames, users, contacts, phones, contactSeq, phoneSeq,
                 started, faults, now, tokens>>

\* verify-reset-code: SELECT * FROM password_reset_codes WHERE phone_number = $1
\* AND code = $2 AND expires_at > NOW(); 400 if no row.
verifySelect(r) ==
  LET q == req[r]
      rows == {x \in codes : x.phone_number = q.phone /\ x.code = q.code /\ x.expires_at > now}
  IN
  /\ q.pc = "select"
  /\ req' = [req EXCEPT ![r] =
       IF rows = {} THEN [q EXCEPT !.status = 400, !.pc = "done"]
       ELSE [q EXCEPT !.matched = rows, !.at = now, !.pc = "delete"]]
  /\ UNCHANGED <<ownerColumn, foreignKeys, uniqueNames, users, contacts, phones, contactSeq, phoneSeq,
                 started, faults, now, codes, tokens>>

\* verify-reset-code: DELETE FROM password_reset_codes WHERE phone_number = $1; 200.
verifyDelete(r) ==
  LET q == req[r] IN
  /\ q.pc = "delete"
  /\ codes' = {x \in codes : x.phone_number # q.phone}
  /\ req' = [req EXCEPT ![r] = [q EXCEPT !.status = 200, !.pc = "done"]]
  /\ UNCHANGED <<ownerColumn, foreignKeys, uniqueNames, users, contacts, phones, contactSeq, phoneSeq,
                 started, faults, now, tokens>>

\* A minute passes.
ResetTick ==
  /\ now < MaxMinutes
  /\ now' = now + 1
  /\ UNCHANGED <<ownerColumn, foreignKeys, uniqueNames, users, contacts, phones, contactSeq, phoneSeq,
                 req, started, faults, codes, tokens>>

ResetInit ==
  /\ ownerColumn = "user_id"
  /\ foreignKeys = "none"
  /\ uniqueNames = FALSE
  /\ users = [u \in Users |-> NewUser]
  /\ contacts = NoRows
  /\ phones = NoRows
  /\ contactSeq = 0
  /\ phoneSeq = 0
  /\ started = 0
  /\ faults = 0
  /\ now = 0
  /\ codes = {}
  /\ tokens = {}
  /\ req = [r \in ResetReqs |-> ResetIdle]

ResetNext ==
  \/ ResetTick
  \/ \E r \in ResetReqs :
       \/ ResetStart(r)
       \/ sendFindUser(r)
       \/ sendInsertCode(r)
       \/ verifySelect(r)
       \/ verifyDelete(r)

SpecReset == ResetInit /\ [][ResetNext]_vars

-----------------------------------------------------------------------------
(* routes/users.js PUT /:id: the statement the handler builds.  req holds   *)
(* one record per request; body maps each updatable field to its value.     *)

Undefined == "undefined"

FieldNames == {UserFields[i] : i \in 1..Len(UserFields)}

\* Values a body may give to a field: left out, empty (zero for age) or usable.
FieldValues(f) ==
  IF f = "age" THEN {Undefined, "0", "5"}
  ELSE IF f = "password" THEN {Undefined, "", "secret1"}
  ELSE {Undefined, "", "v"}

\* The validation chain of the route: every field is optional(); a field that
\* is given must be non-empty (name after trim, password of 6 characters, a
\* MAC address, a mobile phone number, a URL) and age an integer of 1 or more.
Valid(f, v) == v = Undefined \/ (IF f = "age" THEN v # "0" ELSE v # "")

\* if (x) of a string or undefined.
Truthy(v) == v \notin {Undefined, ""}

\* The test that guards the push of field f: 'age !== undefined', 'if (f)' else.
Tested(f, v) == IF f = "age" THEN v # Undefined ELSE Truthy(v)

\* await bcrypt.hash(password, 10).
bcryptHash(v) == "$2a$10$" \o v

\* What the handler pushes to values for field f.
Pushed(f, v) == IF f = "password" THEN bcryptHash(v) ELSE v

\* A counter that is not advanced after a push.
sameCounter(c) == c
\* counter++
nextCounter(c) == c + 1

UserRevs == {"users.js", "part_003"}

BuildIdle ==
  [file |-> "", actor |-> 0, id |-> 0, body |-> [f \in FieldNames |-> Undefined],
   pc |-> "idle", status |-> 0, i |-> 0, updates |-> <<>>, values |-> <<>>, counter |-> 0,
   where |-> 0]

BuildInputs ==
  {[BuildIdle EXCEPT !.file = fl, !.actor = a, !.id = u, !.body = b] :
     fl \in UserRevs, a \in {1}, u \in Users,
     b \in {x \in [FieldNames -> {Undefined, "", "0", "5", "secret1", "v"}] :
              \A f \in FieldNames : x[f] \in FieldValues(f)}}

\* The request passes authenticate and reaches validateRequest.
BuildStart(r) ==
  /\ req[r].pc = "idle"
  /\ \E i \in BuildInputs : req' = [req EXCEPT ![r] = [i EXCEPT !.pc = "validate"]]
  /\ started' = started + 1
  /\ UNCHANGED authVars /\ UNCHANGED <<ownerColumn, foreignKeys, uniqueNames, users, contacts, phones, contactSeq, phoneSeq, faults>>

\* validateRequest: 400 if a chain fails; then the handler's own-profile test
\* and 'let updates = []; let values = []; let counter = 1'.
validateRequest(r) ==
  LET q == req[r] IN
  /\ q.pc = "validate"
  /\ req' = [req EXCEPT ![r] =
       IF \E f \in FieldNames : ~Valid(f, q.body[f]) THEN [q EXCEPT !.status = 400, !.pc = "done"]
       ELSE IF q.id # q.actor THEN [q EXCEPT !.status = 403, !.pc = "done"]
       ELSE [q EXCEPT !.pc = "fields", !.i = 1, !.counter = 1]]
  /\ UNCHANGED authVars /\ UNCHANGED <<ownerColumn, foreignKeys, uniqueNames, users, contacts, phones, contactSeq, phoneSeq, started, faults>>

\* if (<field>) { updates.push(`<field> = $${counter}`); values.push(...); counter++ }
pushField(r) ==
  LET q == req[r]
      f == UserFields[q.i]
      v == q.body[f]
  IN
  /\ q.pc = "fields"
  /\ q.i <= Len(UserFields)
  /\ req' = [req EXCEPT ![r] =
       IF Tested(f, v)
         THEN [q EXCEPT !.updates = Append(@, [col |-> f, ph |-> q.counter]),
                        !.values = Append(@, Pushed(f, v)),
                        !.counter = nextCounter(@),
                        !.i = @ + 1]
         ELSE [q EXCEPT !.i = @ + 1]]
  /\ UNCHANGED authVars /\ UNCHANGED <<ownerColumn, foreignKeys, uniqueNames, users, contacts, phones, contactSeq, phoneSeq, started, faults>>

\* 400 for no assignment; else (users.js) push 'updated_at = NOW()', then
\* values.push(id) and 'WHERE id = $${counter}'.
buildQuery(r) ==
  LET q == req[r] IN
  /\ q.pc = "fields"
  /\ q.i = Len(UserFields) + 1
  /\ req' = [req EXCEPT ![r] =
       IF Len(q.updates) = 0 THEN [q EXCEPT !.status = 400, !.pc = "done"]
       ELSE [q EXCEPT !.updates = IF q.file = "users.js"
                                    THEN Append(@, [col |-> "updated_at", ph |-> 0]) ELSE @,
                      !.values = Append(@, q.id),
                      !.where = q.counter,
                      !.pc = "built"]]
  /\ UNCHANGED authVars /\ UNCHANGED <<ownerColumn, foreignKeys, uniqueNames, users, contacts, phones, contactSeq, phoneSeq, started, faults>>

BuildInit ==
  /\ ownerColumn = "user_id"
  /\ foreignKeys = "none"
  /\ uniqueNames = FALSE
  /\ users = [u \in Users |-> NewUser]
  /\ contacts = NoRows
  /\ phones = NoRows
  /\ contactSeq = 0
  /\ phoneSeq = 0
  /\ started = 0
  /\ faults = 0
  /\ now = 0
  /\ codes = {}
  /\ tokens = {}
  /\ req = [r \in {1} |-> BuildIdle]

BuildNext ==
  \/ BuildStart(1)
  \/ validateRequest(1)
  \/ pushField(1)
  \/ buildQuery(1)

SpecBuild == BuildInit /\ [][BuildNext]_vars

-----------------------------------------------------------------------------
(* Display names: POST /auth/register, POST /users/signup and the name     *)
(* assignment of PUT /users/:id.  Rows of users carry name and phone_number *)
(* here; req holds one record per request.                                  *)

MaxNameReq == 2
NameReqs == 1..MaxNameReq

UserNames == {"ann", "bob"}
PhoneNumbers == {"p1", "p2"}

NameIdle == [op |-> "none", pc |-> "idle", actor |-> 0, name |-> "", phone |-> "", status |-> 0]

NameInputs ==
  {[NameIdle EXCEPT !.op = op, !.name = n, !.phone = p] :
     op \in {"register", "signup"}, n \in UserNames, p \in PhoneNumbers}
  \cup {[NameIdle EXCEPT !.op = "PutUser", !.actor = 1, !.name = n] : n \in UserNames}

\* Ids of the rows of users with the given name / phone number.
WithName(n) == {u \in DOMAIN users : users[u].name = n}
WithPhone(p) == {u \in DOMAIN users : users[u].phone_number = p}

\* The store refuses a row whose name another row (not u) has, if the schema
\* says so.
DuplicateKey(n, u) == uniqueNames /\ WithName(n) \ {u} # {}

NameStart(r) ==
  /\ req[r].pc = "idle"
  /\ \A o \in NameReqs : o < r => req[o].pc # "idle"
  /\ \E i \in NameInputs :
       req' = [req EXCEPT ![r] =
         [i EXCEPT !.pc = CASE i.op = "register" -> "byName"
                          [] i.op = "signup" -> "byPhone"
                          [] OTHER -> "setName"]]
  /\ started' = started + 1
  /\ UNCHANGED authVars /\ UNCHANGED <<ownerColumn, foreignKeys, uniqueNames, users, contacts, phones, contactSeq, phoneSeq, faults>>

\* register: SELECT id FROM users WHERE name = $1; 400 if a row exists.
registerSelect(r) ==
  LET q == req[r] IN
  /\ q.pc = "byName"
  /\ req' = [req EXCEPT ![r] =
       IF WithName(q.name) # {} THEN [q EXCEPT !.status = 400, !.pc = "done"]
       ELSE [q EXCEPT !.pc = "insert"]]
  /\ UNCHANGED authVars /\ UNCHANGED <<ownerColumn, foreignKeys, uniqueNames, users, contacts, phones, contactSeq, phoneSeq, started, faults>>

\* signup: SELECT id FROM users WHERE phone_number = $1; 409 if a row exists.
signupSelect(r) ==
  LET q == req[r] IN
  /\ q.pc = "byPhone"
  /\ req' = [req EXCEPT ![r] =
       IF WithPhone(q.phone) # {} THEN [q EXCEPT !.status = 409, !.pc = "done"]
       ELSE [q EXCEPT !.pc = "insert"]]
  /\ UNCHANGED authVars /\ UNCHANGED <<ownerColumn, foreignKeys, uniqueNames, users, contacts, phones, contactSeq, phoneSeq, started, faults>>

\* register and signup, after the hash: INSERT INTO users (name, password,
\* ...) VALUES ... RETURNING id, ...; 201, or 500 if the store refuses the row.
insertUser(r) ==
  LET q == req[r]
      new == Cardinality(DOMAIN users) + 1
  IN
  /\ q.pc = "insert"
  /\ IF DuplicateKey(q.name, 0)
       THEN /\ users' = users
            /\ req' = [req EXCEPT ![r] = [q EXCEPT !.status = 500, !.pc = "done"]]
       ELSE /\ users' = (new :> [name |-> q.name, phone_number |-> q.phone]) @@ users
            /\ req' = [req EXCEPT ![r] = [q EXCEPT !.status = 201, !.pc = "done"]]
  /\ UNCHANGED authVars /\ UNCHANGED <<ownerColumn, foreignKeys, uniqueNames, contacts, phones, contactSeq, phoneSeq, started, faults>>

\* PUT /users/:id {name} on the caller's own id: UPDATE users SET name = $1
\* ... WHERE id = $2.
updateName(r) ==
  LET q == req[r] IN
  /\ q.pc = "setName"
  /\ IF DuplicateKey(q.name, q.actor)
       THEN /\ users' = users
            /\ req' = [req EXCEPT ![r] = [q EXCEPT !.status = 500, !.pc = "done"]]
       ELSE /\ users' = [users EXCEPT ![q.actor].name = q.name]
            /\ req' = [req EXCEPT ![r] = [q EXCEPT !.status = 200, !.pc = "done"]]
  /\ UNCHANGED authVars /\ UNCHANGED <<ownerColumn, foreignKeys, uniqueNames, contacts, phones, contactSeq, phoneSeq, started, faults>>

\* One user is registered; the schema may or may not declare the name unique.
NameInit ==
  /\ ownerColumn = "user_id"
  /\ foreignKeys = "none"
  /\ uniqueNames \in BOOLEAN
  /\ users = (1 :> [name |-> "ann", phone_number |-> "p1"])
  /\ contacts = NoRows
  /\ phones = NoRows
  /\ contactSeq = 0
  /\ phoneSeq = 0
  /\ started = 0
  /\ faults = 0
  /\ now = 0
  /\ codes = {}
  /\ tokens = {}
  /\ req = [r \in NameReqs |-> NameIdle]

NameNext ==
  \E r \in NameReqs :
    \/ NameStart(r)
    \/ registerSelect(r)
    \/ signupSelect(r)
    \/ insertUser(r)
    \/ updateName(r)

SpecNames == NameInit /\ [][NameNext]_vars

-----------------------------------------------------------------------------
(* Two updates of one contact: PUT /contacts/1 from its owner, each with a  *)
(* phone-number list of its own or with none.                               *)

ReplaceLists == {<<"y", "x">>, <<"z">>}

ReplaceInputs ==
  {In("PutContact", f, 1, 1, [hasName |-> FALSE, hasList |-> TRUE, list |-> l], "", {}) :
      f \in ContactFiles, l \in ReplaceLists}
  \cup {In("PutContact", f, 1, 1, [hasName |-> TRUE, hasList |-> FALSE, list |-> <<>>], "", {}) :
      f \in ContactFiles}

ReplaceStart(r) == \E i \in ReplaceInputs : Arrive(r, i)

\* Contact 1 of user 1 holds one phone number or none.
ReplaceInit ==
  /\ ownerColumn \in {"user_id", "userid"}
  /\ foreignKeys \in {"none", "restrict", "cascade"}
  /\ uniqueNames = FALSE
  /\ users = [u \in Users |-> NewUser]
  /\ contacts = (1 :> [user_id |-> 1, name |-> "n0"])
  /\ phones \in {NoRows, (1 :> [contact_id |-> 1, phone_number |-> "a"])}
  /\ contactSeq = 1
  /\ phoneSeq = 1
  /\ req = [r \in Reqs |-> Idle]
  /\ started = 0
  /\ faults = 0
  /\ now = 0
  /\ codes = {}
  /\ tokens = {}

ReplaceNext ==
  \E r \in Reqs :
    \/ ReplaceStart(r)
    \/ ContactOwnerCheck(r)
    \/ TxBegin(r)
    \/ PutContactUpdate(r)
    \/ DeletePhonesOf(r)
    \/ InsertPhones(r)
    \/ SelectPhones(r)
    \/ TxCommit(r)
    \/ TxRollback(r)

SpecReplace == ReplaceInit /\ [][ReplaceNext]_vars

-----------------------------------------------------------------------------
(* Every route that touches a password, together: the reset-code routes,    *)
(* forgot-password, and the routes behind authenticate.  A phone number is  *)
(* named by the id of the user it belongs to.                               *)

PasswordInit ==
  /\ ownerColumn = "user_id"
  /\ foreignKeys = "none"
  /\ uniqueNames = FALSE
  /\ users = [u \in Users |-> NewUser]
  /\ contacts = NoRows
  /\ phones = NoRows
  /\ contactSeq = 0
  /\ phoneSeq = 0
  /\ started = 0
  /\ faults = 0
  /\ now = 0
  /\ codes = {}
  /\ tokens = {}
  /\ req = [r \in ResetReqs |-> AuthIdle]

PasswordNext ==
  \E r \in ResetReqs :
    \/ AuthStart(r)
    \/ authenticate(r)
    \/ login(r)
    \/ register(r)
    \/ refresh(r)
    \/ forgotPassword(r)
    \/ putPassword(r)
    \/ ResetStart(r)
    \/ sendFindUser(r)
    \/ sendInsertCode(r)
    \/ verifySelect(r)
    \/ verifyDelete(r)

SpecPassword == PasswordInit /\ [][PasswordNext]_vars

-----------------------------------------------------------------------------
(* Properties. *)

Done(r) == req[r].pc = "done"
\* The request ran with no other request in flight and no store error so far.
Undisturbed(r) == Done(r) /\ req[r].alone /\ faults = 0

Mutating == {"PutContact", "DeleteContact", "PostPhone", "PutPhone", "DeletePhone"}
UserOps == {"PutUser", "DeleteUser"}

\* Number strings of a sequence / of stored rows, with multiplicity.
Count(f, n) == Cardinality({i \in DOMAIN f : f[i] = n})
SameNumbers(f, g) == \A n \in {"a", "b", "x", "y", "z"} : Count(f, n) = Count(g, n)

\* C1: a mutating request on a contact or phone number of another user, or
\* on another user's row, answers 403 and issues no write and opens no
\* transaction.
C1_NonOwnerForbidden ==
  \A r \in DOMAIN req :
    LET q == req[r] IN
    (/\ Undisturbed(r)
     /\ \/ q.op \in Mutating /\ q.preOwner \notin {0, q.actor}
        \/ q.op \in UserOps /\ q.id # q.actor)
    => q.status = 403 /\ q.writes = 0 /\ ~q.opened

\* C2: a request addressed to a contact, phone number or user that is not
\* stored answers 404 and has issued no INSERT, UPDATE or DELETE; this
\* includes PUT and DELETE /users/:id by an actor whose own row is gone.
C2_NotFoundBeforeWrite ==
  \A r \in DOMAIN req :
    LET q == req[r] IN
    (/\ Undisturbed(r)
     /\ q.preOwner = 0
     /\ \/ q.op \in Mutating \cup {"GetContact"}
        \/ q.op \in UserOps /\ q.id = q.actor /\ (q.op = "PutUser" => q.fields # {}))
    => q.status = 404 /\ q.writes = 0

\* C3: when a statement of contact creation fails after the contact row was
\* inserted, the handler rejects, the answer is 500, and the store holds
\* neither the contact row nor a phone number of it; a creation that did
\* commit stored the contact's row with exactly the supplied numbers.
C3_CreateAllOrNothing ==
  \A r \in DOMAIN req :
    LET q == req[r] IN
    (Done(r) /\ q.op = "PostContact" /\ q.cid # 0)
    => /\ Len(q.out) < Len(q.list) => q.threw /\ q.status = 500
       /\ ~q.committed =>
            /\ q.threw
            /\ q.cid \notin DOMAIN contacts
            /\ PhonesOfIn(phones, q.cid) = {}
       /\ q.committed => SameNumbers(q.post, q.list)

\* C3 witness: the second phone-number insert of a creation raised.
C3_SecondInsertFailed ==
  \E r \in DOMAIN req :
    /\ Done(r) /\ req[r].op = "PostContact" /\ req[r].cid # 0
    /\ Len(req[r].out) = 1 /\ Len(req[r].list) = 2
    /\ req[r].threw /\ ~req[r].committed

\* C4: from a stored contact with phone numbers, an update by its owner
\* whose list is present and empty leaves it no phone number, and one that
\* omits the list leaves its phone numbers as they were.
C4_ClearVersusOmit ==
  \A r \in DOMAIN req :
    LET q == req[r] IN
    (/\ Undisturbed(r) /\ q.op = "PutContact"
     /\ q.preOwner = q.actor /\ DOMAIN q.pre # {})
    => /\ (q.hasList /\ q.list = <<>>) => DOMAIN q.post = {}
       /\ ~q.hasList => q.post = q.pre

\* An update that supplies nothing: no parent field and no list (contact),
\* no updatable field (user, on the caller's own row).
EmptyContactUpdate(q) == q.op = "PutContact" /\ ~q.hasName /\ ~q.hasList
EmptyUserUpdate(q) == q.op = "PutUser" /\ q.id = q.actor /\ q.fields = {}

C6_CreateThenRead ==
  \A r \in DOMAIN req :
    LET q == req[r] IN
    (Undisturbed(r) /\ q.op = "PostContact")
    => /\ q.status = 201 /\ q.committed
       /\ \A g \in DOMAIN req :
            (/\ g = r + 1 /\ Undisturbed(g) /\ req[g].op = "GetContact"
             /\ req[g].id = q.cid /\ req[g].actor = q.actor)
            => req[g].status = 200 /\ req[g].out = q.list

\* C7: in the sequence create with two numbers, update with an empty list,
\* read, update without a list, read: neither update ends in an error and
\* both reads return an empty list.
C7_ClearedStaysCleared ==
  (faults = 0 /\ \A r \in Steps : Done(r))
  => /\ req[1].status = 201
     /\ req[2].status = 200 /\ ~req[2].threw
     /\ req[3].status = 200 /\ req[3].out = <<>>
     /\ req[4].status = 200 /\ ~req[4].threw
     /\ req[5].status = 200 /\ req[5].out = <<>>

\* C10: in every state of the store, every phone-number row refers to a
\* contact that is stored.
C10_NoOrphanPhone ==
  \A p \in DOMAIN phones : phones[p].contact_id \in DOMAIN contacts

\* A list request that was answered 200.
Listed(r, op) == Done(r) /\ req[r].op = op /\ req[r].status = 200

\* C8: for an owner with N contacts and page size P, page ceil(N/P) of the
\* contact list holds N mod P contacts (P when N mod P = 0) and every
\* earlier page holds P contacts, whatever phone numbers the contacts have.
C8_PageSizes ==
  \A r \in DOMAIN req :
    LET q == req[r]
        N == Cardinality(ContactsOfIn(contacts, ListOwner(q)))
        P == q.limit
    IN
    Listed(r, "ListContacts")
    => /\ q.page < Ceil(N, P) => Len(q.out) = P
       /\ q.page = Ceil(N, P) => Len(q.out) = (IF N % P = 0 THEN P ELSE N % P)

Mentions(q, x) ==
  \/ x[1] = "contacts" /\ q.op = "PutContact" /\ x[2] = q.id /\ x[3] = "name" /\ q.hasName
  \/ x[1] = "users" /\ q.op = "PutUser" /\ x[2] = q.id /\ x[3] \in q.fields
  \/ x[1] = "phones" /\ q.op = "PutPhone" /\ x[2] = q.id /\ x[3] = "phone_number"
       /\ q.number # ""
  \/ x[1] = "phones" /\ q.op = "PutContact" /\ q.hasList
       /\ \/ x[2] \in PhonesOfIn(phones, q.id)
          \/ x[2] \notin DOMAIN phones

UpdateOps == {"PutContact", "PutUser", "PutPhone"}

\* Every stored field, as <<table, key, field>>.
StoredFields ==
  {<<"contacts", c, f>> : c \in DOMAIN contacts, f \in {"user_id", "userid", "name"}}
  \cup {<<"users", u, f>> : u \in DOMAIN users, f \in {UserFields[i] : i \in DOMAIN UserFields}}
  \cup {<<"phones", p, f>> : p \in PhoneIds, f \in {"contact_id", "phone_number"}}

StoredNow(x) ==
  LET t == IF x[1] = "contacts" THEN contacts ELSE IF x[1] = "users" THEN users ELSE phones
  IN IF x[2] \in DOMAIN t /\ x[3] \in DOMAIN t[x[2]] THEN <<t[x[2]][x[3]]>> ELSE <<>>

StoredNext(x) ==
  LET t == IF x[1] = "contacts" THEN contacts' ELSE IF x[1] = "users" THEN users' ELSE phones'
  IN IF x[2] \in DOMAIN t /\ x[3] \in DOMAIN t[x[2]] THEN <<t[x[2]][x[3]]>> ELSE <<>>

Reads == {"GetContact", "GetPhones"}

\* A contact update that replaces a stored, non-empty phone-number list by a
\* non-empty one and has not finished.
ReplacingList(w) ==
  /\ req[w].op = "PutContact" /\ Active(w)
  /\ req[w].hasList /\ req[w].list # <<>> /\ DOMAIN req[w].pre # {}

ContactOps == Mutating \cup {"PostContact"}

\* Rows of a table that a step adds, removes or changes.
Touched(before, after) ==
  {i \in DOMAIN before \cup DOMAIN after :
     \/ i \notin DOMAIN before
     \/ i \notin DOMAIN after
     \/ before[i] # after[i]}

\* The owner of contact c when the step's writes become visible; 0 if the
\* contact is stored neither before nor after the step.
OwnerAtCommit(c) ==
  IF c \in DOMAIN contacts' THEN contacts'[c].user_id
  ELSE IF c \in DOMAIN contacts THEN contacts[c].user_id
  ELSE 0

ContactOfPhone(p) ==
  IF p \in DOMAIN phones' THEN phones'[p].contact_id ELSE phones[p].contact_id

\* C13: whenever the writes of a contact or phone-number request become
\* visible in the store, the requester is the owner, at that moment, of every
\* contact the writes touch (directly or through its phone numbers), and that
\* owner is a stored user.
C13_OwnerCommits ==
  [][\A r \in Reqs :
       (req'[r] # req[r] /\ req[r].op \in ContactOps) =>
          /\ \A c \in Touched(contacts, contacts') :
               OwnerAtCommit(c) = req[r].actor /\ req[r].actor \in DOMAIN users'
          /\ \A p \in Touched(phones, phones') :
               /\ OwnerAtCommit(ContactOfPhone(p)) = req[r].actor
               /\ req[r].actor \in DOMAIN users']_vars

\* Position of the first occurrence of x in the log (0: none).
IndexOf(log, x) ==
  IF \E i \in DOMAIN log : log[i] = x
    THEN CHOOSE i \in DOMAIN log : log[i] = x /\ \A j \in 1..(i - 1) : log[j] # x
    ELSE 0

\* C14: a connection is checked out by one call of transaction() at a time
\* and a finished call released its connection exactly once, however the call
\* ended; a call whose body or COMMIT threw issued ROLLBACK before the release
\* and ended by throwing that same error.
C14_ScopedConnection ==
  /\ \A c, d \in Calls :
       (c # d /\ req[c].held /\ req[d].held) => req[c].client # req[d].client
  /\ \A c \in Calls :
       (req[c].pc = "done" /\ req[c].client # 0) => (req[c].releases = 1 /\ ~req[c].held)
  /\ \A c \in Calls :
       (req[c].pc = "done" /\ req[c].first \in {"callback", "commit"}) =>
          /\ IndexOf(req[c].log, "ROLLBACK") # 0
          /\ IndexOf(req[c].log, "ROLLBACK") < IndexOf(req[c].log, "release")
          /\ req[c].thrown = req[c].first

\* C15: a request that opened a transaction and had a statement of it fail
\* (BEGIN and COMMIT included) is answered 500 by the error handler, not with
\* a success status and not left unanswered, and the store shows none of the
\* transaction's writes.
C15_FailedTransactionAnswered ==
  \A r \in Reqs :
    LET q == req[r] IN
    (Done(r) /\ q.opened /\ q.threw)
    => /\ q.status = 500
       /\ ~q.committed
       /\ (q.op = "PostContact" /\ q.cid # 0) =>
             (q.cid \notin DOMAIN contacts /\ PhonesOfIn(phones, q.cid) = {})

\* Routes that change a user's password.
PasswordRoutes == {"PutUser", "forgot-password"}

\* C16: a route that changes stored data issues no store query before
\* authenticate verified a bearer token, and a request whose token is missing,
\* invalid or expired is answered 401.
C16_TokenBeforeStore ==
  \A r \in AuthReqs :
    req[r].op \in PasswordRoutes =>
      /\ req[r].queries > 0 => req[r].verified
      /\ (req[r].pc = "done" /\ ~jwtVerify(req[r].token) /\ ~req[r].verified)
           => req[r].status = 401

\* C18: every token signed for login, register, signup or refresh names its
\* user and carries an expiry; authenticate accepts no token after its
\* expiry, and a token whose response announced seven days is accepted for
\* seven days and no longer.
C18_TokensExpire ==
  /\ \A tk \in tokens : tk.userId # 0 /\ tk.hasExp
  /\ \A r \in AuthReqs :
       (req[r].pc = "done" /\ req[r].status = 200 /\ req[r].announced # 0) =>
          (req[r].issued.hasExp /\ req[r].issued.exp = req[r].issued.iat + req[r].announced)
  /\ \A r, s \in AuthReqs :
       (req[s].verified /\ req[r].issued = req[s].token /\ req[r].announced # 0) =>
          req[s].at < req[r].issued.iat + req[r].announced

\* A verification that was answered 'Code verified'.
Verified(r) ==
  req[r].op = "verify-reset-code" /\ req[r].pc = "done" /\ req[r].status = 200

\* C17: a verification succeeds only on a stored code that had not expired
\* when it was looked up, and a stored code serves one successful
\* verification at most, whether the verifications follow each other or
\* overlap.
C17_CodeUsedOnce ==
  /\ \A r \in ResetReqs :
       Verified(r) => req[r].matched # {} /\ \A x \in req[r].matched : req[r].at < x.expires_at
  /\ \A r, s \in ResetReqs :
       (r # s /\ Verified(r) /\ Verified(s)) => req[r].matched \cap req[s].matched = {}

\* C19: a request for the contact list of a user other than the requester is
\* answered 403 and carries no contact, and every contact of a list answered
\* 200 is owned by the requester.
C19_ListOnlyForOwner ==
  \A r \in DOMAIN req :
    LET q == req[r] IN
    (Done(r) /\ q.op = "ListContacts" /\ faults = 0) =>
       /\ q.id # q.actor => (q.status = 403 /\ q.out = <<>>)
       /\ q.status = 200 =>
            \A i \in DOMAIN q.out : contacts[q.out[i].id].user_id = q.actor

\* Handlers that start with an ownership check.
GuardedOps == Mutating \cup Reads

\* The handler went past its ownership check to its read or write.
Proceeded(q) ==
  IF q.op \in Reads THEN q.status = 200 ELSE q.opened \/ q.writes > 0

\* C20: the ownership check of a guarded handler answers 404 when the
\* resource is not stored, 403 when it is stored and owned by another user,
\* and lets the handler proceed to its read or write exactly when the
\* requester owns it.
C20_ThreeVerdicts ==
  \A r \in DOMAIN req :
    LET q == req[r] IN
    (Undisturbed(r) /\ q.op \in GuardedOps) =>
       /\ q.preOwner = 0 => (q.status = 404 /\ ~Proceeded(q))
       /\ q.preOwner \notin {0, q.actor} => (q.status = 403 /\ ~Proceeded(q))
       /\ q.preOwner = q.actor => (Proceeded(q) /\ q.status \notin {403, 404})

\* Fields of the body of request q that the request gives, in the order of
\* the handler's declaration.
PresentFields(q) == SelectSeq(UserFields, LAMBDA f : q.body[f] # Undefined)

\* C21: the statement built by PUT /users/:id has, for the n fields present in
\* the request in the order name, password, age, mac, phone_number, image, the
\* k-th assignment '<field> = $k' with the field's value (the hash of it for
\* the password) as k-th parameter; any further assignment is the timestamp,
\* which takes no parameter; WHERE uses $(n+1) and the last parameter is the
\* user id.
C21_StatementOfPresentFields ==
  \A r \in DOMAIN req :
    req[r].pc = "built" =>
      LET q == req[r]
          present == PresentFields(q)
          n == Len(present)
      IN /\ Len(q.updates) >= n
         /\ \A k \in 1..n :
              /\ q.updates[k] = [col |-> present[k], ph |-> k]
              /\ q.values[k] = Pushed(present[k], q.body[present[k]])
         /\ \A k \in (n + 1)..Len(q.updates) : q.updates[k] = [col |-> "updated_at", ph |-> 0]
         /\ Len(q.values) = n + 1
         /\ q.values[n + 1] = q.id
         /\ q.where = n + 1

\* A statement was built for a body that gives some fields and leaves out
\* others, among them a field that follows one left out.
C21_BuiltWithGaps ==
  \E r \in DOMAIN req :
    /\ req[r].pc = "built"
    /\ req[r].body["name"] = Undefined
    /\ req[r].body["password"] # Undefined
    /\ req[r].body["age"] = Undefined
    /\ req[r].body["image"] # Undefined

\* The phone numbers of function f (row id -> number) in the order of the ids.
RECURSIVE InIdOrder(_)
InIdOrder(f) ==
  IF DOMAIN f = {} THEN <<>>
  ELSE LET lo == CHOOSE i \in DOMAIN f : \A j \in DOMAIN f : i <= j
       IN <<f[lo]>> \o InIdOrder([j \in DOMAIN f \ {lo} |-> f[j]])

\* C22: an update of a stored contact by its owner that supplies a
\* phone-number list L, running alone and without a store error, answers 200
\* with the records of L in the order of L, and afterwards the contact's
\* stored phone numbers are exactly L (none of the earlier rows remains).
C22_ListReplaced ==
  \A r \in DOMAIN req :
    LET q == req[r] IN
    (/\ Undisturbed(r) /\ q.op = "PutContact" /\ q.hasList
     /\ q.preOwner = q.actor)
    => /\ q.status = 200
       /\ q.out = q.list
       /\ InIdOrder(q.post) = q.list
       /\ DOMAIN q.post \cap DOMAIN q.pre = {}

\* A contact delete whose transaction committed.
DeletedContact(r) == Done(r) /\ req[r].op = "DeleteContact" /\ req[r].committed

\* C23: when the transaction of a contact delete has committed, the contact
\* is not stored and no phone number of it is stored (the state committed
\* never holds its phone numbers without it), and a later delete of the same
\* id through the same router, met by no store error, answers 404.
C23_DeleteRemovesAll ==
  \A r \in DOMAIN req :
    DeletedContact(r) =>
      /\ req[r].id \notin DOMAIN contacts
      /\ DOMAIN req[r].post = {}
      /\ \A o \in DOMAIN req \ {r} :
           (/\ Done(o) /\ req[o].op = "DeleteContact" /\ req[o].id = req[r].id
            /\ req[o].file = req[r].file /\ req[o].preOwner = 0 /\ faults = 0)
           => req[o].status = 404

\* C24: in every state of the store no two user rows have the same name.
C24_NamesUnique ==
  \A u, v \in DOMAIN users : u # v => users[u].name # users[v].name

\* C25: a step that changes or removes the row of user u is a step of a
\* PUT or DELETE /users/u whose token carries u; and the step that removes
\* the row (the COMMIT of the delete) leaves no contact owned by u stored:
\* the row and the contacts go in one commit.
C25_OwnRowOnly ==
  [][\A u \in DOMAIN users :
       (u \notin DOMAIN users' \/ users'[u] # users[u]) =>
         /\ \E r \in DOMAIN req :
              /\ req'[r] # req[r]
              /\ req[r].op \in UserOps /\ req[r].id = u /\ req[r].actor = u
         /\ u \notin DOMAIN users' => ContactsOfIn(contacts', u) = {}]_vars

\* The contacts of owner u in the order of the list (the names of one owner
\* differ and no contact is flagged here, so the order is the order of names).
InListOrder(u) ==
  CHOOSE s \in Orderings(ContactsOfIn(contacts, u)) :
    \A i, j \in DOMAIN s : i < j => NameRank(contacts[s[i]].name) < NameRank(contacts[s[j]].name)

\* C26: page p of 1..ceil(N/P) of the contact list of an owner holds the
\* contacts at the positions (p-1)P+1 .. pP of the owner's ordered contacts,
\* so that the pages partition them, each with all of its phone numbers.
C26_PagesPartition ==
  \A r \in DOMAIN req :
    LET q == req[r]
        u == ListOwner(q)
        N == Cardinality(ContactsOfIn(contacts, u))
        expected == Window(InListOrder(u), (q.page - 1) * q.limit, q.limit)
    IN
    (Listed(r, "ListContacts") /\ q.page >= 1 /\ q.page <= Ceil(N, q.limit))
    => /\ [i \in DOMAIN q.out |-> q.out[i].id] = expected
       /\ \A i \in DOMAIN q.out :
            Len(q.out[i].phone_numbers) = Cardinality(PhonesOfIn(phones, q.out[i].id))

\* C27: a request that ran a transaction (create, update or delete of a
\* contact, add or update of a phone number, delete of a user) and was
\* answered with a 2xx status has committed that transaction.
C27_SuccessMeansCommitted ==
  \A r \in Reqs :
    LET q == req[r] IN
    (Done(r) /\ q.opened /\ q.status \in 200..299) => q.committed

\* An update of a contact with a phone-number list that succeeded: answered
\* 200 and committed.
Replaced(r) ==
  /\ Done(r) /\ req[r].op = "PutContact" /\ req[r].hasList
  /\ req[r].status = 200 /\ req[r].committed

\* C28: when two updates of one contact with the lists A and B have both
\* succeeded, in whatever interleaving, the contact's stored phone numbers
\* are exactly A or exactly B (with more updates: the list of one of them),
\* never the union or a mixture.
C28_OneListWins ==
  \A r, o \in DOMAIN req :
    (r # o /\ Replaced(r) /\ Replaced(o) /\ req[r].id = req[o].id)
    => InIdOrder(NumbersOfIn(phones, req[r].id))
         \in {req[x].list : x \in {y \in DOMAIN req : Replaced(y) /\ req[y].id = req[r].id}}

\* Two updates with different lists ran at the same time and both succeeded.
C28_BothReplacedConcurrently ==
  \E r, o \in DOMAIN req :
    /\ r # o /\ Replaced(r) /\ Replaced(o) /\ req[r].id = req[o].id
    /\ req[r].list = <<"y", "x">> /\ req[o].list = <<"z">>
    /\ ~req[r].alone /\ ~req[o].alone

\* Request r is authenticated as user u: authenticate verified its token,
\* and the token carries u.
AuthenticatedAs(r, u) ==
  req[r].op \in Protected /\ req[r].verified /\ req[r].token.userId = u

\* A reset code sent to the phone number of user u has been verified.
CodeVerifiedFor(u) ==
  \E o \in DOMAIN req :
    req[o].op = "verify-reset-code" /\ req[o].status = 200 /\ req[o].phone = u

\* C29: a step that changes the stored password of user u is a step of a
\* request authenticated as u, or follows a successful verification of a
\* reset code sent to the phone number of u.
C29_PasswordByOwnerOrCode ==
  [][\A u \in DOMAIN users :
       (u \in DOMAIN users' /\ users'[u].password # users[u].password) =>
         \/ \E r \in DOMAIN req : req'[r] # req[r] /\ AuthenticatedAs(r, u)
         \/ CodeVerifiedFor(u)]_vars

\* C30: for every value of the page and limit parameters the pagination of
\* a list request has page >= 1, limit >= 1 and offset = (page - 1) * limit
\* >= 0, a missing or non-numeric parameter giving page 1 and limit 10; and
\* the page the contact list reports is the page requested.
C30_PaginationInRange ==
  /\ paginate(Idle, 0, 0).page = DefaultPage /\ paginate(Idle, 0, 0).limit = DefaultLimit
  /\ \A r \in DOMAIN req :
       LET q == req[r] IN
       /\ q.op \in {"ListContacts", "ListUsers"}
            => /\ q.page >= 1 /\ q.limit >= 1
               /\ q.offset = (q.page - 1) * q.limit /\ q.offset >= 0
       /\ Listed(r, "ListContacts") => q.meta.page = q.page
====
